---- MODULE Spec2Model ----
(***************************************************************************)
(* Model of the kanarubiya frontend utilities.                             *)
(*                                                                         *)
(*   - the LRC parsers of utils/lrcProcessor.ts (parseLrcContent,          *)
(*     parseConvertedLrcContent), as pure functions over strings;          *)
(*   - the batch conversion client convertBatch of utils/kanaApi.ts, as    *)
(*     an asynchronous call with the HTTP exchange in flight;              *)
(*   - the document pipeline (parse, convert, reassemble) that the         *)
(*     backend runs behind /api/kanafy-ko/lrc, of which the frontend only  *)
(*     holds the declarations (LrcResponse, LrcLineDetail);                *)
(*   - the dictionary client addDictionaryEntry with the handler           *)
(*     handleAddDictionary of the page, and the clients convertText,       *)
(*     convertLrcContent and uploadAndConvertLrc;                          *)
(*   - the middleware that blocks crawlers and sets X-Robots-Tag.          *)
(*                                                                         *)
(* A string is a sequence of one-character strings.  The letters "A", "N", *)
(* "S", "R", "H" stand for Hangul syllables; the lower-case letters they   *)
(* map to under Kanafy stand for kana.                                     *)
(***************************************************************************)
EXTENDS Integers, Sequences, FiniteSets, TLC

VARIABLES
    content,      \* the argument of parseLrcContent / parseConvertedLrcContent
    returned,     \* the parser functions that have returned
    thrown,       \* the parser functions that have thrown
    lyrics,       \* return value of parseLrcContent
    converted,    \* return value of parseConvertedLrcContent
    texts,        \* the argument of convertBatch
    batchPc,      \* where the call of convertBatch stands
    requests,     \* the HTTP requests issued to /api/kanafy-ko/batch
    response,     \* what fetch settles with: a Response or a rejection
    batchResult,  \* the promise convertBatch returned
    pipePc,       \* where the document pipeline stands
    classified,   \* the ClassifiedLines and counts of the Document Parser
    results,      \* line number -> ConversionResult, as far as recorded
    reassembled,  \* the output of the Document Reassembler
    API_BASE_URL,   \* process.env.NEXT_PUBLIC_API_BASE_URL ?? ''
    dictHangul,     \* state of the page: the hangul field of the dialog
    dictKana,       \* state of the page: the kana field of the dialog
    dictSubmitting, \* state of the page: a submission is under way
    dictSuccess,    \* state of the page: the success message, or null
    error,          \* state of the page: the error message, or null
    dictCall,       \* the call of addDictionaryEntry: its caller and arguments
    dictPc,         \* where the call of addDictionaryEntry stands
    dictRequests,   \* the HTTP requests issued to /api/kanafy-ko/dictionary
    dictResponse,   \* what fetch settles with: a Response or a rejection
    dictResult,     \* the promise addDictionaryEntry returned
    apiCall,        \* the call of convertText, convertLrcContent or uploadAndConvertLrc
    apiPc,          \* where that call stands
    apiRequests,    \* the HTTP requests it issued: their URLs
    apiResponse,    \* what fetch settles with: a Response or a rejection
    apiResult,      \* the promise the function returned
    console,        \* the errors written with console.error
    request,        \* the request given to the middleware: its user-agent header
    returnedResponse, \* the response the middleware returned
    input,          \* state of the page: the text to convert
    result,         \* state of the page: the converted text shown
    isConverting,   \* state of the page: a conversion is under way
    sampleIndex,    \* state of the page: the sample inserted next
    dictDialogOpen, \* state of the page: the dictionary dialog is open
    lastSelectionRef, \* the text last selected in the result
    insertions,     \* the clicks on the paste and sample buttons so far
    clipboardReads, \* the clipboard reads that have not settled
    convertCall,    \* the page's call of convertText: its argument
    convertPc,      \* where that call stands
    convertRequests, \* the number of requests the page sent to /api/kanafy-ko
    convertResponse, \* what fetch settles with: a Response or a rejection
    convertResult   \* the promise convertText returned to handleConvert

parseVars == <<content, returned, thrown, lyrics, converted>>

batchVars == <<texts, batchPc, requests, response, batchResult>>

pipeVars == <<pipePc, classified, results, reassembled>>

pageVars == <<dictHangul, dictKana, dictSubmitting, dictSuccess, error>>

dictVars ==
    <<API_BASE_URL, pageVars, dictCall, dictPc, dictRequests, dictResponse,
      dictResult>>

apiVars == <<apiCall, apiPc, apiRequests, apiResponse, apiResult, console>>

middlewareVars == <<request, returnedResponse>>

converterVars ==
    <<input, result, isConverting, sampleIndex, dictDialogOpen,
      lastSelectionRef, insertions, clipboardReads, convertCall, convertPc,
      convertRequests, convertResponse, convertResult>>

vars ==
    <<parseVars, batchVars, pipeVars, dictVars, apiVars, middlewareVars,
      converterVars>>

(***************************************************************************)
(* Bounds of the model.                                                    *)
(***************************************************************************)
MaxLines == 3

MaxTexts == 2

(***************************************************************************)
(* Strings.                                                                *)
(***************************************************************************)
DigitChars == <<"0", "1", "2", "3", "4", "5", "6", "7", "8", "9">>

\* \d of a JavaScript regular expression without the u flag: an ASCII digit
IsDigit(c) == \E i \in DOMAIN DigitChars : DigitChars[i] = c

DigitValue(c) == (CHOOSE i \in DOMAIN DigitChars : DigitChars[i] = c) - 1

\* the characters String.prototype.trim removes, among those of the model
WhiteSpace == {" ", "\t", "\r", "\n"}

RECURSIVE trimStart(_)
trimStart(s) ==
    IF s # <<>> /\ Head(s) \in WhiteSpace THEN trimStart(Tail(s)) ELSE s

RECURSIVE trimEnd(_)
trimEnd(s) ==
    IF s # <<>> /\ s[Len(s)] \in WhiteSpace
    THEN trimEnd(SubSeq(s, 1, Len(s) - 1))
    ELSE s

\* String.prototype.trim
trim(s) == trimEnd(trimStart(s))

\* String.prototype.substring(start) with 0 <= start
substring(s, start) == SubSeq(s, start + 1, Len(s))

\* parseInt of a string of ASCII digits
RECURSIVE parseInt(_)
parseInt(s) ==
    IF s = <<>> THEN 0
    ELSE 10 * parseInt(SubSeq(s, 1, Len(s) - 1)) + DigitValue(s[Len(s)])

\* content.split('\n'): the pieces between the line feeds, empty ones included
RECURSIVE splitFrom(_, _)
splitFrom(s, piece) ==
    IF s = <<>> THEN <<piece>>
    ELSE IF Head(s) = "\n" THEN <<piece>> \o splitFrom(Tail(s), <<>>)
    ELSE splitFrom(Tail(s), Append(piece, Head(s)))

\* a split that leaves out the pieces that are empty after trimming
splitNonBlank(s) == SelectSeq(splitFrom(s, <<>>), LAMBDA l : trim(l) # <<>>)

\* a split that trims its pieces
splitTrimmed(s) ==
    [n \in 1..Len(splitFrom(s, <<>>)) |-> trim(splitFrom(s, <<>>)[n])]

split(s) == splitFrom(s, <<>>)

(***************************************************************************)
(* The timestamp pattern /\[(\d{2}):(\d{2})[.:](\d{2})\]/.                 *)
(***************************************************************************)
\* the pattern with a range check on the seconds: (\d{2}) replaced by [0-5]\d
matchesAtInRange(s, i) ==
    /\ i >= 1
    /\ i + 9 <= Len(s)
    /\ s[i] = "["
    /\ IsDigit(s[i + 1]) /\ IsDigit(s[i + 2])
    /\ s[i + 3] = ":"
    /\ IsDigit(s[i + 4]) /\ DigitValue(s[i + 4]) < 6 /\ IsDigit(s[i + 5])
    /\ s[i + 6] \in {".", ":"}
    /\ IsDigit(s[i + 7]) /\ IsDigit(s[i + 8])
    /\ s[i + 9] = "]"

\* the pattern matches the ten characters of s that start at 1-based index i
matchesAt(s, i) ==
    /\ i >= 1
    /\ i + 9 <= Len(s)
    /\ s[i] = "["
    /\ IsDigit(s[i + 1]) /\ IsDigit(s[i + 2])
    /\ s[i + 3] = ":"
    /\ IsDigit(s[i + 4]) /\ IsDigit(s[i + 5])
    /\ s[i + 6] \in {".", ":"}
    /\ IsDigit(s[i + 7]) /\ IsDigit(s[i + 8])
    /\ s[i + 9] = "]"

null == [isNull |-> TRUE]

\* a test that lets every value through
always(m) == TRUE

\* if (timestampMatch): a match array is truthy, null is not
truthy(m) == m # null

\* s.match(pattern): the leftmost match, with its capture groups, or null.
\* full is timestampMatch[0]; index is the 0-based position of the match.
timestampMatch(s) ==
    IF \E i \in 1..Len(s) : matchesAt(s, i)
    THEN LET i == CHOOSE k \in 1..Len(s) :
                    /\ matchesAt(s, k)
                    /\ \A j \in 1..(k - 1) : ~matchesAt(s, j)
         IN  [isNull       |-> FALSE,
              index        |-> i - 1,
              full         |-> SubSeq(s, i, i + 9),
              minutes      |-> SubSeq(s, i + 1, i + 2),
              seconds      |-> SubSeq(s, i + 4, i + 5),
              centiseconds |-> SubSeq(s, i + 7, i + 8)]
    ELSE null

\* parseInt(minutes) * 60 + parseInt(seconds) + parseInt(centiseconds) / 100,
\* counted in hundredths of a second so that it stays an integer
timeOf(m) ==
    parseInt(m.minutes) * 6000 + parseInt(m.seconds) * 100
        + parseInt(m.centiseconds)

\* the text after the tag as it stands, not trimmed
lyricsTextUntrimmed(trimmedLine, m) == substring(trimmedLine, Len(m.full))

\* trimmedLine.substring(timestampMatch[0].length).trim()
lyricsTextOf(trimmedLine, m) == trim(substring(trimmedLine, Len(m.full)))

(***************************************************************************)
(* parseLrcContent and parseConvertedLrcContent.                           *)
(***************************************************************************)
\* the body of the for loop of parseLrcContent for one line: the records it
\* pushes (none or one)
lyricsOfLine(line) ==
    LET trimmedLine == trim(line)
        m           == timestampMatch(trimmedLine)
    IN  IF trimmedLine = <<>> THEN <<>>
        ELSE IF ~truthy(m) THEN <<>>
        ELSE IF lyricsTextOf(trimmedLine, m) = <<>> THEN <<>>
        ELSE <<[time |-> timeOf(m), original |-> lyricsTextOf(trimmedLine, m)]>>

\* the body of the for loop throws on the line: the destructuring
\* const [, minutes, seconds, centiseconds] = timestampMatch is a TypeError
\* when it is reached with timestampMatch null
throwsOnLine(line) ==
    LET trimmedLine == trim(line)
        m           == timestampMatch(trimmedLine)
    IN  trimmedLine # <<>> /\ truthy(m) /\ m = null

\* the parse of the content throws: its loop throws on one of the lines
throws(c) == \E n \in 1..Len(split(c)) : throwsOnLine(split(c)[n])

\* the for loop of parseLrcContent: the array lyrics before it is sorted
RECURSIVE lyricsOfLines(_)
lyricsOfLines(lines) ==
    IF lines = <<>> THEN <<>>
    ELSE lyricsOfLine(Head(lines)) \o lyricsOfLines(Tail(lines))

\* a comparator with its operands exchanged
compareDescending(a, b) == b.time - a.time

\* the comparator (a, b) => a.time - b.time
compareTime(a, b) == a.time - b.time

\* one insertion of a sort that is not stable: x goes before the first
\* element that the comparator does not place before it
RECURSIVE insertBeforeEqual(_, _)
insertBeforeEqual(sorted, x) ==
    IF sorted = <<>> THEN <<x>>
    ELSE IF compareTime(Head(sorted), x) >= 0 THEN <<x>> \o sorted
    ELSE <<Head(sorted)>> \o insertBeforeEqual(Tail(sorted), x)

\* one insertion of a stable sort: x goes before the first element that the
\* comparator places after it
RECURSIVE insertSorted(_, _)
insertSorted(sorted, x) ==
    IF sorted = <<>> THEN <<x>>
    ELSE IF compareTime(Head(sorted), x) > 0 THEN <<x>> \o sorted
    ELSE <<Head(sorted)>> \o insertSorted(Tail(sorted), x)

\* Array.prototype.sort with the comparator: stable (ECMAScript 2019)
RECURSIVE sortFrom(_, _)
sortFrom(sorted, rest) ==
    IF rest = <<>> THEN sorted
    ELSE sortFrom(insertSorted(sorted, Head(rest)), Tail(rest))

sort(records) == sortFrom(<<>>, records)

parseLrcContent(c) == sort(lyricsOfLines(split(c)))

\* a loop body that separates the two payloads of a converted line at its
\* first space: the original before it, the converted text after it
convertedOfLineSeparated(line) ==
    LET trimmedLine == trim(line)
        m           == timestampMatch(trimmedLine)
        text        == lyricsTextOf(trimmedLine, m)
        spaces      == { i \in 1..Len(text) : text[i] = " " }
        at          == CHOOSE i \in spaces : \A j \in spaces : i <= j
    IN  IF trimmedLine = <<>> THEN <<>>
        ELSE IF ~truthy(m) THEN <<>>
        ELSE IF text = <<>> THEN <<>>
        ELSE IF spaces = {}
        THEN <<[time |-> timeOf(m), original |-> text, converted |-> text]>>
        ELSE <<[time      |-> timeOf(m),
                original  |-> trim(SubSeq(text, 1, at - 1)),
                converted |-> trim(SubSeq(text, at + 1, Len(text)))]>>

\* the body of the for loop of parseConvertedLrcContent for one line
convertedOfLine(line) ==
    LET trimmedLine == trim(line)
        m           == timestampMatch(trimmedLine)
    IN  IF trimmedLine = <<>> THEN <<>>
        ELSE IF ~truthy(m) THEN <<>>
        ELSE IF lyricsTextOf(trimmedLine, m) = <<>> THEN <<>>
        ELSE <<[time      |-> timeOf(m),
                original  |-> lyricsTextOf(trimmedLine, m),
                converted |-> lyricsTextOf(trimmedLine, m)]>>

RECURSIVE convertedOfLines(_)
convertedOfLines(lines) ==
    IF lines = <<>> THEN <<>>
    ELSE convertedOfLine(Head(lines)) \o convertedOfLines(Tail(lines))

parseConvertedLrcContent(c) == sort(convertedOfLines(split(c)))

(***************************************************************************)
(* Inputs of the parsers.                                                  *)
(***************************************************************************)
\* the tag [mm:ss<sep>ff] of two-character groups
Tag(mm, sep, ss, ff) == <<"[">> \o mm \o <<":">> \o ss \o <<sep>> \o ff \o <<"]">>

\* tags of the recognised shape
ValidTags ==
    { Tag(<<"0", "0">>, ".", <<"0", "1">>, <<"2", "3">>),
      Tag(<<"0", "0">>, ":", <<"0", "5">>, <<"0", "0">>),
      Tag(<<"0", "0">>, ".", <<"0", "5">>, <<"0", "0">>),
      Tag(<<"0", "0">>, ".", <<"6", "0">>, <<"0", "0">>),
      Tag(<<"0", "1">>, ".", <<"0", "0">>, <<"0", "0">>),
      Tag(<<"9", "9">>, ".", <<"5", "9">>, <<"9", "9">>),
      Tag(<<"9", "9">>, ":", <<"9", "9">>, <<"9", "9">>) }

\* bracketed runs that are not of the recognised shape
OtherTags ==
    { <<"[", "0", ":", "0", "1", ".", "2", "3", "]">>,
      <<"[", "0", "0", "0", ":", "0", "1", ".", "2", "3", "]">>,
      <<"[", "0", "0", ":", "0", "1", ",", "2", "3", "]">>,
      <<"[", "0", "0", ":", "0", "1", ".", "2", "3">>,
      <<"[", "t", "i", ":", "A", "]">> }

Prefixes == { <<>>, <<" ">>, <<"A">>, <<"A", " ">>, <<"[">>, <<"\t", " ">> }

Suffixes ==
    { <<>>, <<" ">>, <<"\r">>, <<"A", "N">>, <<" ", "A", " ", " ", "N", " ">>,
      <<"S", "R", "H", "\r">>, <<"]">>,
      Tag(<<"0", "0">>, ".", <<"0", "2">>, <<"0", "0">>) }

\* one-line contents: a bracketed run with text before and after it
LineInputs ==
    { p \o t \o s : p \in Prefixes, t \in ValidTags \cup OtherTags, s \in Suffixes }
        \cup Prefixes \cup Suffixes

\* the lines that documents of several lines are made of
DocLines ==
    { Tag(<<"0", "0">>, ".", <<"0", "1">>, <<"2", "3">>) \o <<"A", "N">>,
      Tag(<<"0", "0">>, ":", <<"0", "5">>, <<"0", "0">>) \o <<"S", "R", "H">>,
      Tag(<<"0", "0">>, ".", <<"0", "5">>, <<"0", "0">>) \o <<"A">>,
      <<>>,
      Tag(<<"9", "9">>, ".", <<"5", "9">>, <<"9", "9">>),
      <<"[", "t", "i", ":", "A", "]">>,
      <<" ">> \o Tag(<<"0", "0">>, ".", <<"0", "0">>, <<"5", "0">>)
          \o <<" ", "A", " ", " ", "N", "\r">>,
      <<"A">> \o Tag(<<"0", "0">>, ".", <<"0", "0">>, <<"5", "0">>) }

RECURSIVE join(_)
join(lines) ==
    IF Len(lines) = 1 THEN lines[1]
    ELSE lines[1] \o <<"\n">> \o join(Tail(lines))

DocInputs ==
    { join(ls) : ls \in UNION { [1..n -> DocLines] : n \in 2..MaxLines } }

\* "[00:01.23]AN\n[00:05:00]SRH\n\n[99:59.99]"
ExampleDocument ==
    join(<< Tag(<<"0", "0">>, ".", <<"0", "1">>, <<"2", "3">>) \o <<"A", "N">>,
            Tag(<<"0", "0">>, ":", <<"0", "5">>, <<"0", "0">>) \o <<"S", "R", "H">>,
            <<>>,
            Tag(<<"9", "9">>, ".", <<"5", "9">>, <<"9", "9">>) >>)

ContentInputs == LineInputs \cup DocInputs \cup {ExampleDocument}

(***************************************************************************)
(* The parsers as a state machine: a content is given, and each parser is  *)
(* called on it once.                                                      *)
(***************************************************************************)
ParserIdle ==
    /\ returned = {}
    /\ thrown = {}
    /\ lyrics = <<>>
    /\ converted = <<>>

BatchIdle ==
    /\ texts = <<>>
    /\ batchPc = "idle"
    /\ requests = 0
    /\ response = [kind |-> "none"]
    /\ batchResult = [state |-> "none"]

PipelineIdle ==
    /\ pipePc = "idle"
    /\ classified = [lines |-> <<>>]
    /\ results = <<>>
    /\ reassembled = [document |-> <<>>, details |-> <<>>]

MiddlewareIdle ==
    /\ request = [userAgent |-> null]
    /\ returnedResponse = null

ApiIdle ==
    /\ apiCall = [function |-> "none"]
    /\ apiPc = "idle"
    /\ apiRequests = <<>>
    /\ apiResponse = [kind |-> "none"]
    /\ apiResult = [state |-> "none"]
    /\ console = <<>>

\* the state of the page after its useState calls
PageInit ==
    /\ dictHangul = <<>>
    /\ dictKana = <<>>
    /\ dictSubmitting = FALSE
    /\ dictSuccess = null
    /\ error = null

\* the converter of the page after its useState and useRef calls, nothing
\* clicked yet
ConverterIdle ==
    /\ input = <<>>
    /\ result = <<>>
    /\ isConverting = FALSE
    /\ sampleIndex = 0
    /\ dictDialogOpen = FALSE
    /\ lastSelectionRef = <<>>
    /\ insertions = 0
    /\ clipboardReads = 0
    /\ convertCall = [caller |-> "none"]
    /\ convertPc = "idle"
    /\ convertRequests = 0
    /\ convertResponse = [kind |-> "none"]
    /\ convertResult = [state |-> "none"]

DictionaryIdle ==
    /\ API_BASE_URL = <<>>
    /\ PageInit
    /\ dictCall = [caller |-> "none"]
    /\ dictPc = "idle"
    /\ dictRequests = <<>>
    /\ dictResponse = [kind |-> "none"]
    /\ dictResult = [state |-> "none"]

ParseInit ==
    /\ content \in ContentInputs
    /\ ParserIdle
    /\ BatchIdle
    /\ PipelineIdle
    /\ DictionaryIdle
    /\ ApiIdle
    /\ MiddlewareIdle
    /\ ConverterIdle

ParseLrcContent ==
    /\ "parseLrcContent" \notin returned \cup thrown
    /\ IF throws(content)
       THEN /\ thrown' = thrown \cup {"parseLrcContent"}
            /\ UNCHANGED <<returned, lyrics>>
       ELSE /\ lyrics' = parseLrcContent(content)
            /\ returned' = returned \cup {"parseLrcContent"}
            /\ UNCHANGED thrown
    /\ UNCHANGED <<content, converted, batchVars, pipeVars, dictVars, apiVars, middlewareVars, converterVars>>

ParseConvertedLrcContent ==
    /\ "parseConvertedLrcContent" \notin returned \cup thrown
    /\ IF throws(content)
       THEN /\ thrown' = thrown \cup {"parseConvertedLrcContent"}
            /\ UNCHANGED <<returned, converted>>
       ELSE /\ converted' = parseConvertedLrcContent(content)
            /\ returned' = returned \cup {"parseConvertedLrcContent"}
            /\ UNCHANGED thrown
    /\ UNCHANGED <<content, lyrics, batchVars, pipeVars, dictVars, apiVars, middlewareVars, converterVars>>

ParseNext == ParseLrcContent \/ ParseConvertedLrcContent

ParseSpec == ParseInit /\ [][ParseNext]_vars

(***************************************************************************)
(* Properties of the parsers.                                              *)
(***************************************************************************)
linesOf(c) == split(c)

\* the line has a timestamp tag somewhere in its trimmed text
hasTag(line) == timestampMatch(trim(line)) # null

\* the timestamp tag stands at the start of the trimmed line
hasLeadingTag(line) == matchesAt(trim(line), 1)

\* the text that follows the matched tag in the line, trimmed at its edges
followingText(line) ==
    LET t == trim(line)
        m == timestampMatch(t)
    IN  trim(substring(t, m.index + Len(m.full)))

\* the text of the matched tag of the line
tagText(line) == timestampMatch(trim(line)).full

\* C1: round-trip timestamp fidelity: some formatting of the parsed timestamp
\* reproduces, for every tag parsed from the content, the text of that tag,
\* its separator included
RoundTripTimestampFidelity ==
    "parseLrcContent" \in returned =>
        LET lines   == linesOf(content)
            lyric   == { n \in 1..Len(lines) : lyricsOfLine(lines[n]) # <<>> }
            times   == { lyrics[k].time : k \in 1..Len(lyrics) }
            tags    == { tagText(lines[n]) : n \in lyric }
        IN  \E format \in [times -> tags] :
                \A n \in lyric :
                    format[lyricsOfLine(lines[n])[1].time] = tagText(lines[n])

LyricOnlyWithLeadingTag ==
    /\ "parseLrcContent" \in returned =>
           lyrics = sort(lyricsOfLines(SelectSeq(linesOf(content), hasLeadingTag)))
    /\ "parseConvertedLrcContent" \in returned =>
           converted =
               sort(convertedOfLines(SelectSeq(linesOf(content), hasLeadingTag)))

\* C9: the payload of every record is the text that follows the matched tag
\* of its line, trimmed at its edges
PayloadIsTextAfterTag ==
    "parseLrcContent" \in returned =>
        \A k \in 1..Len(lyrics) :
            \E n \in 1..Len(linesOf(content)) :
                /\ hasTag(linesOf(content)[n])
                /\ lyrics[k].time = timeOf(timestampMatch(trim(linesOf(content)[n])))
                /\ lyrics[k].original = followingText(linesOf(content)[n])

\* the number of lines with a tag and a text after it that is not empty
payloadLines(c) ==
    Cardinality({ n \in 1..Len(linesOf(c)) :
                    /\ hasTag(linesOf(c)[n])
                    /\ followingText(linesOf(c)[n]) # <<>> })

\* C10: a line that is empty after trimming, or whose tag is followed by
\* nothing but white space, yields no record; the example document yields
\* the two records of its first two lines
NoRecordForEmptyPayload ==
    /\ "parseLrcContent" \in returned =>
           /\ Len(lyrics) <= payloadLines(content)
           /\ content = ExampleDocument =>
                  lyrics = << [time |-> 123, original |-> <<"A", "N">>],
                              [time |-> 500, original |-> <<"S", "R", "H">>] >>
    /\ "parseConvertedLrcContent" \in returned =>
           /\ Len(converted) <= payloadLines(content)
           /\ content = ExampleDocument =>
                  /\ Len(converted) = 2
                  /\ converted[1].original = <<"A", "N">>
                  /\ converted[2].original = <<"S", "R", "H">>

\* the ten characters of t are a tag [dd:dd.dd] or [dd:dd:dd], d a digit
isTagShape(t) ==
    /\ Len(t) = 10
    /\ \A k \in {2, 3, 5, 6, 8, 9} : IsDigit(t[k])
    /\ \E sep \in {".", ":"} :
           t = Tag(SubSeq(t, 2, 3), sep, SubSeq(t, 5, 6), SubSeq(t, 8, 9))

\* a tag of that shape stands somewhere in s
containsTagShape(s) ==
    \E i \in 1..Len(s) : i + 9 <= Len(s) /\ isTagShape(SubSeq(s, i, i + 9))

\* the digit groups of a tag taken as they are, in hundredths of a second
tagTime(t) ==
    (DigitValue(t[2]) * 10 + DigitValue(t[3])) * 6000
        + (DigitValue(t[5]) * 10 + DigitValue(t[6])) * 100
        + (DigitValue(t[8]) * 10 + DigitValue(t[9]))

\* the lines whose trimmed text is a tag of the shape followed by a text
\* that is not blank
taggedLines(c) ==
    { n \in 1..Len(linesOf(c)) :
        LET t == trim(linesOf(c)[n])
        IN  /\ Len(t) > 10
            /\ isTagShape(SubSeq(t, 1, 10))
            /\ trim(SubSeq(t, 11, Len(t))) # <<>> }

\* C11: a timestamp is recognised exactly when the tag has the shape
\* [dd:dd.dd] or [dd:dd:dd]: every line that starts with such a tag and a
\* text yields a record whose time is that of the digit groups, whatever
\* their values (no range check); there are no more records than lines that
\* hold a tag of the shape, so a line without one yields no record
TimestampRecognisedByShape ==
    "parseLrcContent" \in returned =>
        LET lines == linesOf(content)
        IN  /\ Len(lyrics) >= Cardinality(taggedLines(content))
            /\ \A n \in taggedLines(content) :
                   \E k \in 1..Len(lyrics) :
                       lyrics[k].time = tagTime(SubSeq(trim(lines[n]), 1, 10))
            /\ Len(lyrics) <=
                   Cardinality({ n \in 1..Len(lines) :
                                   containsTagShape(trim(lines[n])) })

\* C11, witness: the line [99:99:99] with a text has been parsed to a record
\* of 99 minutes, 99 seconds and 99 hundredths
OutOfRangeTimestampRecognised ==
    /\ "parseLrcContent" \in returned
    /\ Len(lyrics) = 1
    /\ lyrics[1].time = 603999

\* C12: document parsing is total: parseLrcContent and
\* parseConvertedLrcContent never throw, and what each has returned is a
\* list (empty in the worst case)
ParsingIsTotal ==
    /\ thrown = {}
    /\ "parseLrcContent" \in returned => DOMAIN lyrics = 1..Len(lyrics)
    /\ "parseConvertedLrcContent" \in returned =>
           DOMAIN converted = 1..Len(converted)

\* C12, witness: both parsers have returned the empty list for a content
\* that is not empty and holds a malformed tag
MalformedContentParsedToEmptyList ==
    /\ returned = {"parseLrcContent", "parseConvertedLrcContent"}
    /\ lyrics = <<>> /\ converted = <<>>
    /\ \E i \in 1..Len(content) : content[i] = "["

(***************************************************************************)
(* The conversion service behind /api/kanafy-ko/batch.                     *)
(***************************************************************************)
\* the kana the service renders a syllable as
KanaOf(c) ==
    CASE c = "A" -> "a"
      [] c = "N" -> "n"
      [] c = "S" -> "s"
      [] c = "R" -> "r"
      [] c = "H" -> "h"
      [] OTHER   -> c

Kanafy(text) == [i \in 1..Len(text) |-> KanaOf(text[i])]

\* the error field of a ConvertTextResponse that carries none
noError == "undefined"

\* the values of the field results of a response body: absent, null, or an
\* array of ConvertTextResponse
undefined == [isUndefined |-> TRUE]

array(items) == [isArray |-> TRUE, items |-> items]

\* the ConvertTextResponse of a text the service converted
converted_ok(text) ==
    [original |-> text, phonetic_hangul |-> text, kana |-> Kanafy(text),
     error |-> noError]

\* the ConvertTextResponse of a text the service failed on: the error is
\* set, and kana is empty or repeats the text
converted_failed(text, kana) ==
    [original |-> text, phonetic_hangul |-> text, kana |-> kana,
     error |-> "conversion failed"]

\* the results the service can give for the texts, one per text and in the
\* order of the texts
ResultsInOrder(ts) ==
    { r \in [1..Len(ts) -> UNION { { converted_ok(t), converted_failed(t, <<>>),
                                     converted_failed(t, t) } :
                                   t \in { ts[i] : i \in 1..Len(ts) } }] :
        \A i \in 1..Len(ts) : r[i].original = ts[i] }

reverse(r) == [i \in 1..Len(r) |-> r[Len(r) + 1 - i]]

\* the bodies of a response: not JSON, the JSON null, an object without
\* results, with results null, or with an array of results in the order of
\* the texts, in the opposite order, or short of its last entry
ResponseBodies(ts) ==
    { [json |-> "invalid"], [json |-> "null"],
      [json |-> "object", results |-> undefined],
      [json |-> "object", results |-> null] }
        \cup { [json |-> "object", results |-> array(r)] :
                 r \in ResultsInOrder(ts) }
        \cup { [json |-> "object", results |-> array(reverse(r))] :
                 r \in ResultsInOrder(ts) }
        \cup { [json |-> "object", results |-> array(SubSeq(r, 1, Len(r) - 1))] :
                 r \in ResultsInOrder(ts) }

StatusCodes == {200, 404, 429, 500}

\* Response.ok
ok(r) == r.status >= 200 /\ r.status <= 299

TextInputs == { <<"A", "N">>, <<"S", "R", "H">>, <<"A">> }

TextsInputs == UNION { [1..n -> TextInputs] : n \in 0..MaxTexts }

(***************************************************************************)
(* convertBatch.                                                           *)
(***************************************************************************)
\* a convertBatch that leaves out the results that carry an error
resultsWithoutErrors(data) ==
    IF data.results \in {undefined, null} THEN <<>>
    ELSE SelectSeq(data.results.items, LAMBDA e : e.error = noError)

\* data.results ?? []
resultsOrEmpty(data) ==
    IF data.results \in {undefined, null} THEN <<>> ELSE data.results.items

\* convertBatch from the settling of fetch on: what its promise settles with
convertBatchSettles(r) ==
    IF r.kind = "rejected"
    THEN [state |-> "rejected", error |-> r.error]
    ELSE IF ~ok(r)
    THEN [state |-> "rejected",
          error |-> [name |-> "Error",
                     message |-> [text   |-> "HTTP error! status: ",
                                  status |-> r.status]]]
    ELSE IF r.body.json = "invalid"
    THEN [state |-> "rejected",
          error |-> [name    |-> "SyntaxError",
                     message |-> [text |-> "Unexpected token"]]]
    ELSE IF r.body.json = "null"
    THEN [state |-> "rejected",
          error |-> [name |-> "TypeError",
                     message |-> [text |-> "Cannot read properties of null"]]]
    ELSE [state |-> "resolved", value |-> resultsOrEmpty(r.body)]

\* convertBatch is called: the request is issued and the function waits
ConvertBatchCall ==
    /\ batchPc = "idle"
    /\ \E ts \in TextsInputs : texts' = ts
    /\ requests' = requests + 1
    /\ batchPc' = "fetch"
    /\ batchResult' = [state |-> "pending"]
    /\ UNCHANGED <<response, parseVars, pipeVars, dictVars, apiVars, middlewareVars, converterVars>>

\* the service answers the request
ServiceResponds ==
    /\ batchPc = "fetch"
    /\ response.kind = "none"
    /\ \E st \in StatusCodes, b \in ResponseBodies(texts) :
           response' = [kind |-> "response", status |-> st, body |-> b]
    /\ UNCHANGED <<texts, batchPc, requests, batchResult, parseVars, pipeVars, dictVars, apiVars, middlewareVars, converterVars>>

\* the request does not reach the service: fetch rejects
FetchRejects ==
    /\ batchPc = "fetch"
    /\ response.kind = "none"
    /\ response' = [kind  |-> "rejected",
                    error |-> [name |-> "TypeError",
                               message |-> [text |-> "Failed to fetch"]]]
    /\ UNCHANGED <<texts, batchPc, requests, batchResult, parseVars, pipeVars, dictVars, apiVars, middlewareVars, converterVars>>

\* convertBatch resumes when fetch has settled, and settles its promise
ConvertBatchResume ==
    /\ batchPc = "fetch"
    /\ response.kind # "none"
    /\ batchResult' = convertBatchSettles(response)
    /\ batchPc' = "done"
    /\ UNCHANGED <<texts, requests, response, parseVars, pipeVars, dictVars, apiVars, middlewareVars, converterVars>>

BatchInit ==
    /\ content = <<>>
    /\ ParserIdle
    /\ BatchIdle
    /\ PipelineIdle
    /\ DictionaryIdle
    /\ ApiIdle
    /\ MiddlewareIdle
    /\ ConverterIdle

BatchNext ==
    ConvertBatchCall \/ ServiceResponds \/ FetchRejects \/ ConvertBatchResume

BatchSpec == BatchInit /\ [][BatchNext]_vars

(***************************************************************************)
(* Properties of convertBatch.                                             *)
(***************************************************************************)
\* the entries of a list of results that carry an error
failures(r) == { k \in 1..Len(r) : r[k].error # noError }

\* the service answered OK with one result per submitted text, of which
\* exactly one carries an error
oneLineFailed ==
    /\ response.kind = "response"
    /\ ok(response)
    /\ response.body.json = "object"
    /\ response.body.results \notin {undefined, null}
    /\ Len(response.body.results.items) = Len(texts)
    /\ Cardinality(failures(response.body.results.items)) = 1

\* C4: failure isolation: when the conversion of exactly one line fails,
\* convertBatch still resolves, with one entry for every submitted text, of
\* which exactly one carries an error, together with the original text of
\* its line, and all others carry the converted text of their line
FailureIsolation ==
    (batchPc = "done" /\ oneLineFailed) =>
        /\ batchResult.state = "resolved"
        /\ LET v == batchResult.value
               n == Len(texts)
           IN  /\ Len(v) = n
               /\ \E p \in Permutations(1..n) :
                      \A i \in 1..n : v[p[i]].original = texts[i]
               /\ Cardinality(failures(v)) = 1
               /\ \A k \in 1..n :
                      k \notin failures(v) => v[k].kana = Kanafy(v[k].original)

\* C4, witness: convertBatch has settled for two texts of which one failed
OneOfTwoLinesFailed ==
    /\ batchPc = "done"
    /\ oneLineFailed
    /\ Len(texts) = 2
    /\ texts[1] # texts[2]

\* C5: every outcome convertBatch delivers stands at the position of the
\* text it was submitted for, also when the service answers in another order
OutcomeAttributedToItsLine ==
    batchResult.state = "resolved" =>
        \A i \in 1..Len(texts) :
            i <= Len(batchResult.value) =>
                batchResult.value[i].original = texts[i]

\* C6: whenever convertBatch resolves, its array has one entry per text
OneResultPerText ==
    batchResult.state = "resolved" =>
        Len(batchResult.value) = Len(texts)

(***************************************************************************)
(* The document pipeline of the backend: Timestamp Codec, Line Classifier, *)
(* Document Parser, Batch Conversion Orchestrator, Document Reassembler.   *)
(***************************************************************************)
\* Timestamp Codec, parse: the digit groups and the separator of a tag of
\* the recognised shape
parseTimestamp(tag) ==
    IF Len(tag) = 10 /\ matchesAt(tag, 1)
    THEN [isNull    |-> FALSE,
          minutes   |-> parseInt(SubSeq(tag, 2, 3)),
          seconds   |-> parseInt(SubSeq(tag, 5, 6)),
          fraction  |-> parseInt(SubSeq(tag, 8, 9)),
          separator |-> tag[7]]
    ELSE null

\* a number below 100 as two digits
twoDigits(n) == <<DigitChars[(n \div 10) + 1], DigitChars[(n % 10) + 1]>>

\* Timestamp Codec, format
formatTimestamp(t) ==
    <<"[">> \o twoDigits(t.minutes) \o <<":">> \o twoDigits(t.seconds)
        \o <<t.separator>> \o twoDigits(t.fraction) \o <<"]">>

\* the raw text up to the end of the timestamp tag that starts its trimmed text
prefixOf(rawText) ==
    SubSeq(rawText, 1, (Len(rawText) - Len(trimStart(rawText))) + 10)

\* bracketed, and no timestamp
isMetadataShape(t) == t # <<>> /\ t[1] = "[" /\ t[Len(t)] = "]"

\* Line Classifier
classify(lineNumber, rawText) ==
    LET t    == trim(rawText)
        base == [lineNumber |-> lineNumber, rawText |-> rawText]
    IN  IF t = <<>> THEN base @@ [kind |-> "blank"]
        ELSE IF matchesAt(t, 1)
        THEN IF trim(substring(t, 10)) # <<>>
             THEN base @@ [kind      |-> "lyric",
                           timestamp |-> parseTimestamp(SubSeq(t, 1, 10)),
                           payload   |-> trim(substring(t, 10)),
                           prefix    |-> prefixOf(rawText)]
             ELSE base @@ [kind |-> "unrecognized"]
        ELSE IF isMetadataShape(t) THEN base @@ [kind |-> "metadata"]
        ELSE base @@ [kind |-> "unrecognized"]

countKind(lines, kind) ==
    Cardinality({ n \in 1..Len(lines) : lines[n].kind = kind })

\* Document Parser
parseDocument(text) ==
    LET raw   == split(text)
        lines == [n \in 1..Len(raw) |-> classify(n, raw[n])]
    IN  [lines         |-> lines,
         totalLines    |-> Len(lines),
         lyricsLines   |-> countKind(lines, "lyric"),
         metadataLines |-> countKind(lines, "metadata")]

\* the ConversionResult that is not recorded yet
noResult == [variant |-> "none"]

\* the outcomes of the external conversion of a payload
ConversionOutcomes(payload) ==
    { [variant |-> "success", convertedPayload |-> Kanafy(payload)],
      [variant |-> "failure", errorMessage |-> "conversion failed"] }

\* Document Reassembler: the text emitted for a line
emit(line, res) ==
    IF line.kind = "lyric" /\ res.variant = "success"
    THEN line.prefix \o res.convertedPayload
    ELSE line.rawText

\* Document Reassembler: the LineDetail of a line
lineDetail(line, res) ==
    [lineNumber |-> line.lineNumber,
     original   |-> line.rawText,
     processed  |-> IF line.kind = "lyric" /\ res.variant = "success"
                    THEN res.convertedPayload
                    ELSE line.rawText,
     type       |-> line.kind,
     timestamp  |-> IF line.kind = "lyric"
                    THEN formatTimestamp(line.timestamp) ELSE <<>>,
     error      |-> IF line.kind = "lyric" /\ res.variant = "failure"
                    THEN res.errorMessage ELSE noError]

RECURSIVE joinLines(_)
joinLines(lines) ==
    IF lines = <<>> THEN <<>>
    ELSE IF Len(lines) = 1 THEN lines[1]
    ELSE lines[1] \o <<"\n">> \o joinLines(Tail(lines))

reassemble(lines, res) ==
    [document |-> joinLines([n \in 1..Len(lines) |-> emit(lines[n], res[n])]),
     details  |-> [n \in 1..Len(lines) |-> lineDetail(lines[n], res[n])]]

\* the document is parsed
ParseDocument ==
    /\ pipePc = "idle"
    /\ classified' = parseDocument(content)
    /\ results' = [n \in 1..Len(split(content)) |-> noResult]
    /\ pipePc' = "converting"
    /\ UNCHANGED <<reassembled, parseVars, batchVars, dictVars, apiVars, middlewareVars, converterVars>>

\* the conversion of one lyric line completes, in whatever order, and its
\* outcome is recorded under the number of the line
RecordConversionResult ==
    /\ pipePc = "converting"
    /\ \E n \in 1..Len(classified.lines) :
           /\ classified.lines[n].kind = "lyric"
           /\ results[n] = noResult
           /\ \E o \in ConversionOutcomes(classified.lines[n].payload) :
                  results' = [results EXCEPT ![n] = o]
    /\ UNCHANGED <<pipePc, classified, reassembled, parseVars, batchVars, dictVars, apiVars, middlewareVars, converterVars>>

\* every lyric line has its result: the document is reassembled
Reassemble ==
    /\ pipePc = "converting"
    /\ \A n \in 1..Len(classified.lines) :
           classified.lines[n].kind = "lyric" => results[n] # noResult
    /\ reassembled' = reassemble(classified.lines, results)
    /\ pipePc' = "reassembled"
    /\ UNCHANGED <<classified, results, parseVars, batchVars, dictVars, apiVars, middlewareVars, converterVars>>

PipelineInit ==
    /\ content \in ContentInputs
    /\ ParserIdle
    /\ BatchIdle
    /\ PipelineIdle
    /\ DictionaryIdle
    /\ ApiIdle
    /\ MiddlewareIdle
    /\ ConverterIdle

PipelineNext == ParseDocument \/ RecordConversionResult \/ Reassemble

PipelineSpec == PipelineInit /\ [][PipelineNext]_vars

(***************************************************************************)
(* Properties of the document pipeline.                                    *)
(***************************************************************************)
lineFeeds(c) == { i \in 1..Len(c) : c[i] = "\n" }

\* the number of physical lines of a document
numberOfLines(c) == Cardinality(lineFeeds(c)) + 1

\* the position of the k-th line feed of the document
lineFeed(c, k) ==
    CHOOSE i \in lineFeeds(c) : Cardinality({ j \in lineFeeds(c) : j <= i }) = k

\* the n-th physical line of the document: the text between two line feeds
physicalLine(c, n) ==
    SubSeq(c,
           IF n = 1 THEN 1 ELSE lineFeed(c, n - 1) + 1,
           IF n = numberOfLines(c) THEN Len(c) ELSE lineFeed(c, n) - 1)

includes(s, sub) ==
    \E i \in 1..(Len(s) + 1) :
        i + Len(sub) - 1 <= Len(s) /\ SubSeq(s, i, i + Len(sub) - 1) = sub

\* the decimal digits of a number, as `${response.status}` writes them
RECURSIVE decimal(_)
decimal(n) ==
    IF n < 10 THEN <<DigitChars[n + 1]>>
    ELSE decimal(n \div 10) \o <<DigitChars[(n % 10) + 1]>>

\* a string value, where null is possible too
string(text) == [isNull |-> FALSE, text |-> text]

\* new Error(message)
Error(message) == [name |-> "Error", message |-> message]

\* the message of the catch block of addDictionaryEntry
unreachableMessage(base) ==
    <<"Cannot connect to the backend. ">>
        \o (IF base # <<>> THEN base
            ELSE <<"http://localhost:8000 (in development Next forwards /api here)">>)
        \o <<" : check that the API is running there.">>

\* the message for a response with status 404
notFoundMessage(base) ==
    <<"The dictionary API was not found (404). Restart the backend, or check that it runs at ">>
        \o (IF base # <<>> THEN base ELSE <<"http://localhost:8000">>)
        \o <<".">>

\* `HTTP error! status: ${response.status}`
httpErrorMessage(status) == <<"HTTP error! status: ">> \o decimal(status)

\* the catch block of addDictionaryEntry: what it throws for the error e
\* that fetch rejected with
fetchFailure(base, e) ==
    LET msg == e.message
    IN  IF \/ includes(msg, <<"f", "e", "t", "c", "h">>)
           \/ includes(msg, <<"F", "a", "i", "l", "e", "d", " ", "t", "o", " ",
                              "f", "e", "t", "c", "h">>)
           \/ includes(msg, <<"N", "e", "t", "w", "o", "r", "k",
                              "E", "r", "r", "o", "r">>)
        THEN Error(unreachableMessage(base))
        ELSE e

\* await response.json().catch(() => ({})): the parsed body, {} when the body
\* is not JSON
jsonOrEmptyObject(body) ==
    IF body.json = "invalid" THEN [json |-> "object", detail |-> undefined]
    ELSE body

\* typeof err?.detail === 'string' ? err.detail : ''
detailOf(err) ==
    IF err.json = "object" /\ err.detail # undefined /\ err.detail.type = "string"
    THEN err.detail.text
    ELSE <<>>

\* the block with the tests in the other order: the detail before the status
httpFailureDetailFirst(base, status, body) ==
    IF detailOf(jsonOrEmptyObject(body)) # <<>>
    THEN Error(detailOf(jsonOrEmptyObject(body)))
    ELSE IF status = 404 THEN Error(notFoundMessage(base))
    ELSE Error(httpErrorMessage(status))

\* the block without the detail of the body
httpFailureStatusOnly(base, status, body) ==
    IF status = 404 THEN Error(notFoundMessage(base))
    ELSE Error(httpErrorMessage(status))

\* the block if (!response.ok) of addDictionaryEntry: what it throws
httpFailure(base, status, body) ==
    LET err    == jsonOrEmptyObject(body)
        detail == detailOf(err)
    IN  IF status = 404 THEN Error(notFoundMessage(base))
        ELSE Error(IF detail # <<>> THEN detail ELSE httpErrorMessage(status))

\* return response.json(): the promise of the parsed body
jsonPromise(body) ==
    IF body.json = "invalid"
    THEN [state |-> "rejected",
          error |-> [name |-> "SyntaxError", message |-> <<"Unexpected token">>]]
    ELSE [state |-> "resolved", value |-> body]

\* addDictionaryEntry without the test of response.ok
addDictionaryEntryUnchecked(base, r) ==
    IF r.kind = "rejected"
    THEN [state |-> "rejected", error |-> fetchFailure(base, r.error)]
    ELSE jsonPromise(r.body)

\* how the promise of addDictionaryEntry settles once fetch has settled with r
addDictionaryEntrySettles(base, r) ==
    IF r.kind = "rejected"
    THEN [state |-> "rejected", error |-> fetchFailure(base, r.error)]
    ELSE IF ~ok(r)
    THEN [state |-> "rejected", error |-> httpFailure(base, r.status, r.body)]
    ELSE jsonPromise(r.body)

\* the body of the request: JSON.stringify({ hangul: hangul.trim(), kana: kana.trim() })
requestBody(hangul, kana) == [hangul |-> trim(hangul), kana |-> trim(kana)]

\* the values typed into the fields of the dialog
HangulInputs == { <<>>, <<" ", " ">>, <<"A">>, <<" ", "A", "N", " ">> }

KanaInputs == { <<>>, <<" ">>, <<"a">>, <<"a", "n", " ">> }

ApiBaseUrls ==
    { <<>>,
      <<"h", "t", "t", "p", ":", "/", "/", "a", "p", "i", ".", "e", "x", "a",
        "m", "p", "l", "e">> }

\* the errors fetch rejects with when the endpoint cannot be reached: a
\* TypeError whose message is the browser's (Chrome, Firefox, Safari, Node)
FetchErrors ==
    { [name |-> "TypeError", message |-> msg] : msg \in
        { <<"F", "a", "i", "l", "e", "d", " ", "t", "o", " ", "f", "e", "t",
            "c", "h">>,
          <<"N", "e", "t", "w", "o", "r", "k", "E", "r", "r", "o", "r", " ",
            "w", "h", "e", "n", " ", "a", "t", "t", "e", "m", "p", "t", "i",
            "n", "g", " ", "t", "o", " ", "f", "e", "t", "c", "h", " ", "r",
            "e", "s", "o", "u", "r", "c", "e", ".">>,
          <<"L", "o", "a", "d", " ", "f", "a", "i", "l", "e", "d">>,
          <<"f", "e", "t", "c", "h", " ", "f", "a", "i", "l", "e", "d">> } }

DictionaryStatusCodes == {200, 404, 422, 500}

\* the values of the member detail of a response body
DetailValues ==
    { undefined,
      [type |-> "string", text |-> <<>>],
      [type |-> "string",
       text |-> <<"a", "l", "r", "e", "a", "d", "y", " ", "e", "x", "i", "s",
                  "t", "s">>],
      [type |-> "number"],
      [type |-> "object"] }

\* the bodies of the responses of /api/kanafy-ko/dictionary
DictionaryBodies ==
    { [json |-> "invalid"], [json |-> "null"] }
        \cup { [json |-> "object", detail |-> d] : d \in DetailValues }

\* a test of emptiness that does not trim
empty(s) == s = <<>>

\* !s.trim()
blank(s) == trim(s) = <<>>

BothFieldsMessage == <<"Enter both the hangul and the reading (kana).">>

\* a success message that does not name the pair
successMessageUnnamed(hangul, kana) == <<"The entry was added to the dictionary.">>

\* the success message of handleAddDictionary
successMessage(hangul, kana) ==
    <<"'">> \o hangul \o <<"' -> '">> \o kana
        \o <<"' was added to the dictionary.">>

\* addDictionaryEntry(hangul, kana) up to its await fetch(...): one request
\* is issued
callAddDictionaryEntry(caller, hangul, kana) ==
    /\ dictCall' = [caller |-> caller, hangul |-> hangul, kana |-> kana]
    /\ dictRequests' = Append(dictRequests, requestBody(hangul, kana))
    /\ dictPc' = "fetch"
    /\ dictResult' = [state |-> "pending"]

DictInit ==
    /\ API_BASE_URL \in ApiBaseUrls
    /\ PageInit
    /\ dictCall = [caller |-> "none"]
    /\ dictPc = "idle"
    /\ dictRequests = <<>>
    /\ dictResponse = [kind |-> "none"]
    /\ dictResult = [state |-> "none"]
    /\ content = <<>>
    /\ ParserIdle
    /\ BatchIdle
    /\ PipelineIdle
    /\ ApiIdle
    /\ MiddlewareIdle
    /\ ConverterIdle

\* onChange of the input dict-hangul (disabled while dictSubmitting)
SetDictHangul ==
    /\ dictPc = "idle"
    /\ ~dictSubmitting
    /\ \E v \in HangulInputs : dictHangul' = v
    /\ UNCHANGED <<API_BASE_URL, dictKana, dictSubmitting, dictSuccess, error,
                   dictCall, dictPc, dictRequests, dictResponse, dictResult,
                   parseVars, batchVars, pipeVars, apiVars, middlewareVars, converterVars>>

\* onChange of the input dict-kana (disabled while dictSubmitting)
SetDictKana ==
    /\ dictPc = "idle"
    /\ ~dictSubmitting
    /\ \E v \in KanaInputs : dictKana' = v
    /\ UNCHANGED <<API_BASE_URL, dictHangul, dictSubmitting, dictSuccess, error,
                   dictCall, dictPc, dictRequests, dictResponse, dictResult,
                   parseVars, batchVars, pipeVars, apiVars, middlewareVars, converterVars>>

\* handleAddDictionary up to its await: the handler is run in whatever state
\* the fields are (the button that runs it is disabled while a field is
\* blank; the handler tests the fields again by itself)
HandleAddDictionary ==
    /\ dictPc = "idle"
    /\ ~dictSubmitting
    /\ IF blank(dictHangul) \/ blank(dictKana)
       THEN /\ error' = string(BothFieldsMessage)
            /\ UNCHANGED <<dictSubmitting, dictSuccess, dictCall, dictPc,
                           dictRequests, dictResult>>
       ELSE /\ dictSubmitting' = TRUE
            /\ error' = null
            /\ dictSuccess' = null
            /\ callAddDictionaryEntry("handleAddDictionary", dictHangul, dictKana)
    /\ UNCHANGED <<API_BASE_URL, dictHangul, dictKana, dictResponse,
                   parseVars, batchVars, pipeVars, apiVars, middlewareVars, converterVars>>

\* addDictionaryEntry called by another caller than the page, with any
\* arguments
AddDictionaryEntryCall ==
    /\ dictPc = "idle"
    /\ ~dictSubmitting
    /\ \E hangul \in HangulInputs, kana \in KanaInputs :
           callAddDictionaryEntry("other", hangul, kana)
    /\ UNCHANGED <<API_BASE_URL, pageVars, dictResponse,
                   parseVars, batchVars, pipeVars, apiVars, middlewareVars, converterVars>>

\* the service answers the request
DictionaryResponds ==
    /\ dictPc = "fetch"
    /\ dictResponse.kind = "none"
    /\ \E status \in DictionaryStatusCodes, body \in DictionaryBodies :
           dictResponse' = [kind |-> "response", status |-> status, body |-> body]
    /\ UNCHANGED <<API_BASE_URL, pageVars, dictCall, dictPc, dictRequests,
                   dictResult, parseVars, batchVars, pipeVars, apiVars, middlewareVars, converterVars>>

\* the endpoint cannot be reached: fetch rejects
DictionaryFetchRejects ==
    /\ dictPc = "fetch"
    /\ dictResponse.kind = "none"
    /\ \E e \in FetchErrors : dictResponse' = [kind |-> "rejected", error |-> e]
    /\ UNCHANGED <<API_BASE_URL, pageVars, dictCall, dictPc, dictRequests,
                   dictResult, parseVars, batchVars, pipeVars, apiVars, middlewareVars, converterVars>>

\* addDictionaryEntry from its await fetch(...) to its end
AddDictionaryEntryResume ==
    /\ dictPc = "fetch"
    /\ dictResponse.kind # "none"
    /\ dictResult' = addDictionaryEntrySettles(API_BASE_URL, dictResponse)
    /\ dictPc' = "settled"
    /\ UNCHANGED <<API_BASE_URL, pageVars, dictCall, dictRequests, dictResponse,
                   parseVars, batchVars, pipeVars, apiVars, middlewareVars, converterVars>>

\* handleAddDictionary from its await to its end: the rest of the try block,
\* or the catch block, and the finally block
HandleAddDictionaryResume ==
    /\ dictPc = "settled"
    /\ dictCall.caller = "handleAddDictionary"
    /\ IF dictResult.state = "resolved"
       THEN /\ dictSuccess' = string(successMessage(dictCall.hangul, dictCall.kana))
            /\ dictHangul' = <<>>
            /\ dictKana' = <<>>
            /\ UNCHANGED error
       ELSE /\ error' = string(dictResult.error.message)
            /\ UNCHANGED <<dictSuccess, dictHangul, dictKana>>
    /\ dictSubmitting' = FALSE
    /\ dictPc' = "done"
    /\ UNCHANGED <<API_BASE_URL, dictCall, dictRequests, dictResponse,
                   dictResult, parseVars, batchVars, pipeVars, apiVars, middlewareVars, converterVars>>

DictNext ==
    \/ SetDictHangul
    \/ SetDictKana
    \/ HandleAddDictionary
    \/ AddDictionaryEntryCall
    \/ DictionaryResponds
    \/ DictionaryFetchRejects
    \/ AddDictionaryEntryResume
    \/ HandleAddDictionaryResume

DictSpec == DictInit /\ [][DictNext]_vars

(***************************************************************************)
(* Properties of the dictionary client.                                    *)
(***************************************************************************)
\* the call of addDictionaryEntry has settled
dictionarySettled == dictPc \in {"settled", "done"}

\* fetch settled with a Response whose status is not OK
notOkResponse ==
    /\ dictResponse.kind = "response"
    /\ ~(dictResponse.status >= 200 /\ dictResponse.status <= 299)

\* the body of the response is JSON with a string detail that is not empty
bodyHasDetail ==
    /\ dictResponse.body.json = "object"
    /\ dictResponse.body.detail # undefined
    /\ dictResponse.body.detail.type = "string"
    /\ dictResponse.body.detail.text # <<>>

\* C13 as stated: addDictionaryEntry called with a field that is empty after
\* trimming issues no network request
AddDictionaryEntryRejectsBlankField ==
    ( /\ dictCall.caller # "none"
      /\ trim(dictCall.hangul) = <<>> \/ trim(dictCall.kana) = <<>> )
        => dictRequests = <<>>

\* C13 as amended: handleAddDictionary run with a field that is empty after
\* trimming sets error to the both-fields message, does not call
\* addDictionaryEntry and issues no network request
HandlerRejectsBlankFieldLocally ==
    [][ ( /\ HandleAddDictionary
          /\ trim(dictHangul) = <<>> \/ trim(dictKana) = <<>> )
            => /\ error' = string(BothFieldsMessage)
               /\ dictRequests' = dictRequests
               /\ dictCall' = dictCall
               /\ dictPc' = "idle"
               /\ dictSubmitting' = FALSE ]_vars

\* C13, witness: the handler has rejected a submission whose kana is blank
\* and whose hangul is not, and no request has been issued
BlankKanaRejectedLocally ==
    /\ error = string(BothFieldsMessage)
    /\ trim(dictHangul) # <<>>
    /\ dictKana # <<>> /\ trim(dictKana) = <<>>
    /\ dictRequests = <<>>
    /\ dictPc = "idle"

\* C14: whenever fetch itself rejects, addDictionaryEntry rejects with the
\* network-unreachable message, whatever the message of the underlying error
UnreachableWhateverTheMessage ==
    (dictionarySettled /\ dictResponse.kind = "rejected")
        => dictResult = [state |-> "rejected",
                         error |-> Error(unreachableMessage(API_BASE_URL))]

\* C15: a response with status 404 makes addDictionaryEntry reject with the
\* not-found message, which is not the network-unreachable message, also
\* when the body carries a string detail
NotFoundClassified ==
    ( /\ dictionarySettled
      /\ dictResponse.kind = "response"
      /\ dictResponse.status = 404 )
        => /\ dictResult = [state |-> "rejected",
                            error |-> Error(notFoundMessage(API_BASE_URL))]
           /\ notFoundMessage(API_BASE_URL) # unreachableMessage(API_BASE_URL)

\* C15, witness: a 404 whose body carries a string detail has been settled
NotFoundWithDetailSettled ==
    /\ dictionarySettled
    /\ dictResponse.kind = "response"
    /\ dictResponse.status = 404
    /\ bodyHasDetail

\* C16: for a response that is not OK and not a 404, addDictionaryEntry
\* rejects with the detail of the body when the body is JSON with a string
\* detail that is not empty, and with HTTP error! status: <status> in every
\* other case; the message of the first kind is never the second
DetailOrHttpError ==
    (dictionarySettled /\ notOkResponse /\ dictResponse.status # 404)
        => /\ dictResult.state = "rejected"
           /\ dictResult.error.name = "Error"
           /\ IF bodyHasDetail
              THEN /\ dictResult.error.message = dictResponse.body.detail.text
                   /\ dictResult.error.message
                          # httpErrorMessage(dictResponse.status)
              ELSE dictResult.error.message
                       = httpErrorMessage(dictResponse.status)

\* C16, witness: a 422 whose body carries a string detail has been settled
ServiceRejectionSettled ==
    /\ dictionarySettled
    /\ dictResponse.kind = "response"
    /\ dictResponse.status = 422
    /\ bodyHasDetail

\* C17: addDictionaryEntry resolves only when the status of the response is
\* OK; every rejection of fetch and every response that is not OK ends in a
\* rejected promise; in the page every such rejection sets error to a
\* message and leaves dictSuccess null
NoDictionaryFailureSwallowed ==
    /\ dictResult.state = "resolved" =>
           /\ dictResponse.kind = "response"
           /\ dictResponse.status >= 200 /\ dictResponse.status <= 299
    /\ (dictionarySettled /\ (dictResponse.kind = "rejected" \/ notOkResponse))
           => dictResult.state = "rejected"
    /\ ( /\ dictPc = "done"
         /\ dictCall.caller = "handleAddDictionary"
         /\ dictResult.state = "rejected" )
           => /\ error # null
              /\ dictSuccess = null
              /\ ~dictSubmitting

\* C17, witness: the handler has ended after fetch rejected
FetchRejectionShownInPage ==
    /\ dictPc = "done"
    /\ dictCall.caller = "handleAddDictionary"
    /\ dictResponse.kind = "rejected"
    /\ error # null

(***************************************************************************)
(* convertText, convertLrcContent and uploadAndConvertLrc.                 *)
(***************************************************************************)
\* the URL of the request of each function, after API_BASE_URL
endpoint(function) ==
    CASE function = "convertText"         -> <<"/api/kanafy-ko">>
      [] function = "convertLrcContent"   -> <<"/api/kanafy-ko/lrc">>
      [] function = "uploadAndConvertLrc" -> <<"/api/kanafy-ko/lrc/upload">>

\* the bodies of the responses of these endpoints: not JSON, or a JSON value
ApiBodies == { [json |-> "invalid"], [json |-> "null"], [json |-> "object"] }

\* convertText from the settling of fetch on: nothing is caught
convertTextSettles(r) ==
    IF r.kind = "rejected" THEN [state |-> "rejected", error |-> r.error]
    ELSE IF ~ok(r)
    THEN [state |-> "rejected", error |-> Error(httpErrorMessage(r.status))]
    ELSE jsonPromise(r.body)

\* the try block of convertLrcContent and of uploadAndConvertLrc from the
\* settling of fetch on: return await response.json(), or what is thrown
tryBlockSettles(r) ==
    IF r.kind = "rejected" THEN [state |-> "rejected", error |-> r.error]
    ELSE IF ~ok(r)
    THEN [state |-> "rejected", error |-> Error(httpErrorMessage(r.status))]
    ELSE jsonPromise(r.body)

\* a catch block that throws a new error in place of the one it caught
rethrowWrapped(caught) ==
    [state |-> "rejected", error |-> Error(<<"LRC conversion failed">>)]

\* catch (error) { console.error(...); throw error }
rethrow(caught) == [state |-> "rejected", error |-> caught]

\* the call of a function up to its await fetch(...): one request is issued
callFunction(function, argument) ==
    /\ apiPc = "idle"
    /\ apiCall' = [function |-> function, argument |-> argument]
    /\ apiRequests' = Append(apiRequests, API_BASE_URL \o endpoint(function))
    /\ apiPc' = "fetch"
    /\ apiResult' = [state |-> "pending"]
    /\ UNCHANGED <<apiResponse, console, parseVars, batchVars, pipeVars, dictVars, middlewareVars, converterVars>>

ConvertTextCall == \E text \in TextInputs : callFunction("convertText", text)

\* the contents given to convertLrcContent, and those of the files given to
\* uploadAndConvertLrc
ContentArguments == { <<>>, ExampleDocument }

ConvertLrcContentCall ==
    \E c \in ContentArguments : callFunction("convertLrcContent", c)

UploadAndConvertLrcCall ==
    \E file \in ContentArguments : callFunction("uploadAndConvertLrc", file)

\* the service answers the request
ApiResponds ==
    /\ apiPc = "fetch"
    /\ apiResponse.kind = "none"
    /\ \E status \in StatusCodes, body \in ApiBodies :
           apiResponse' = [kind |-> "response", status |-> status, body |-> body]
    /\ UNCHANGED <<apiCall, apiPc, apiRequests, apiResult, console,
                   parseVars, batchVars, pipeVars, dictVars, middlewareVars, converterVars>>

\* the endpoint cannot be reached: fetch rejects
ApiFetchRejects ==
    /\ apiPc = "fetch"
    /\ apiResponse.kind = "none"
    /\ \E e \in FetchErrors : apiResponse' = [kind |-> "rejected", error |-> e]
    /\ UNCHANGED <<apiCall, apiPc, apiRequests, apiResult, console,
                   parseVars, batchVars, pipeVars, dictVars, middlewareVars, converterVars>>

\* convertText from its await fetch(...) to its end
ConvertTextResume ==
    /\ apiPc = "fetch"
    /\ apiCall.function = "convertText"
    /\ apiResponse.kind # "none"
    /\ apiResult' = convertTextSettles(apiResponse)
    /\ apiPc' = "done"
    /\ UNCHANGED <<apiCall, apiRequests, apiResponse, console,
                   parseVars, batchVars, pipeVars, dictVars, middlewareVars, converterVars>>

\* a function that issues its request a second time when the first failed
resumeWithRetry(function, label) ==
    /\ apiPc = "fetch"
    /\ apiCall.function = function
    /\ apiResponse.kind # "none"
    /\ LET tried == tryBlockSettles(apiResponse)
       IN  IF tried.state = "rejected" /\ Len(apiRequests) < 2
           THEN /\ apiRequests' = Append(apiRequests, apiRequests[1])
                /\ apiResponse' = [kind |-> "none"]
                /\ UNCHANGED <<apiPc, apiResult, console>>
           ELSE /\ apiResult' = tried
                /\ apiPc' = "done"
                /\ UNCHANGED <<apiRequests, apiResponse, console>>
    /\ UNCHANGED <<apiCall, parseVars, batchVars, pipeVars, dictVars, middlewareVars, converterVars>>

\* a function with try / catch from its await fetch(...) to its end: what
\* the try block throws is written to the console and thrown again
resumeWithCatch(function, label) ==
    /\ apiPc = "fetch"
    /\ apiCall.function = function
    /\ apiResponse.kind # "none"
    /\ LET tried == tryBlockSettles(apiResponse)
       IN  IF tried.state = "rejected"
           THEN /\ console' = Append(console, [label |-> label, error |-> tried.error])
                /\ apiResult' = rethrow(tried.error)
           ELSE /\ apiResult' = tried
                /\ UNCHANGED console
    /\ apiPc' = "done"
    /\ UNCHANGED <<apiCall, apiRequests, apiResponse,
                   parseVars, batchVars, pipeVars, dictVars, middlewareVars, converterVars>>

ConvertLrcContentResume ==
    resumeWithCatch("convertLrcContent", "LRC conversion error:")

UploadAndConvertLrcResume ==
    resumeWithCatch("uploadAndConvertLrc", "LRC file upload error:")

ApiNext ==
    \/ ConvertTextCall
    \/ ConvertLrcContentCall
    \/ UploadAndConvertLrcCall
    \/ ApiResponds
    \/ ApiFetchRejects
    \/ ConvertTextResume
    \/ ConvertLrcContentResume
    \/ UploadAndConvertLrcResume

(***************************************************************************)
(* The clients together: one call of one of the five functions.  The       *)
(* functions share no state, so the calls are taken one at a time.         *)
(***************************************************************************)
noBatchCall == batchPc = "idle"

noDictionaryCall == dictPc = "idle" /\ PageInit

noApiCall == apiPc = "idle"

ClientInit == DictInit

\* a call, or the use of the dialog, begins only while nothing else is under
\* way; the steps that follow a call need no such condition
ClientNext ==
    \/ noDictionaryCall /\ noApiCall /\ ConvertBatchCall
    \/ ServiceResponds
    \/ FetchRejects
    \/ ConvertBatchResume
    \/ noBatchCall /\ noApiCall /\ SetDictHangul
    \/ noBatchCall /\ noApiCall /\ SetDictKana
    \/ noBatchCall /\ noApiCall /\ HandleAddDictionary
    \/ noBatchCall /\ noApiCall /\ AddDictionaryEntryCall
    \/ DictionaryResponds
    \/ DictionaryFetchRejects
    \/ AddDictionaryEntryResume
    \/ HandleAddDictionaryResume
    \/ noBatchCall /\ noDictionaryCall /\ ConvertTextCall
    \/ noBatchCall /\ noDictionaryCall /\ ConvertLrcContentCall
    \/ noBatchCall /\ noDictionaryCall /\ UploadAndConvertLrcCall
    \/ ApiResponds
    \/ ApiFetchRejects
    \/ ConvertTextResume
    \/ ConvertLrcContentResume
    \/ UploadAndConvertLrcResume

ClientSpec == ClientInit /\ [][ClientNext]_vars

(***************************************************************************)
(* Properties of the clients.                                              *)
(***************************************************************************)
\* the HTTP call did not complete successfully: fetch rejected, or the status
\* of the response is not OK
transportFailed(r) ==
    \/ r.kind = "rejected"
    \/ r.kind = "response" /\ ~(r.status >= 200 /\ r.status <= 299)

\* C18: no internal retries: each call of convertText, convertBatch,
\* convertLrcContent, uploadAndConvertLrc and addDictionaryEntry has issued
\* exactly one HTTP request, to the endpoint of the function, at every moment
\* from the call on, also after fetch rejected or the status was not OK
ExactlyOneRequestPerCall ==
    /\ requests = (IF batchPc = "idle" THEN 0 ELSE 1)
    /\ Len(dictRequests) = (IF dictCall.caller = "none" THEN 0 ELSE 1)
    /\ Len(apiRequests) = (IF apiCall.function = "none" THEN 0 ELSE 1)
    /\ apiCall.function # "none" =>
           apiRequests[1] = API_BASE_URL \o endpoint(apiCall.function)

\* C18, witness: a call of uploadAndConvertLrc has ended after a response
\* that was not OK, with one request issued
FailedUploadIssuedOneRequest ==
    /\ apiPc = "done"
    /\ apiCall.function = "uploadAndConvertLrc"
    /\ apiResponse.kind = "response" /\ apiResponse.status = 500
    /\ Len(apiRequests) = 1

\* C19: when the HTTP call of convertBatch or convertLrcContent does not
\* complete successfully, the function rejects with a single error and
\* delivers no results (its promise holds an error and no value, and once
\* rejected it does not change); convertLrcContent throws the very error it
\* caught and wrote to the console
TransportFailureRejectsOnce ==
    /\ []( /\ (batchPc = "done" /\ transportFailed(response)) =>
                  /\ batchResult.state = "rejected"
                  /\ DOMAIN batchResult = {"state", "error"}
                  /\ response.kind = "rejected" =>
                         batchResult.error = response.error
           /\ ( /\ apiPc = "done"
                /\ apiCall.function = "convertLrcContent"
                /\ transportFailed(apiResponse) ) =>
                  /\ apiResult.state = "rejected"
                  /\ DOMAIN apiResult = {"state", "error"}
                  /\ Len(console) = 1
                  /\ apiResult.error = console[1].error
                  /\ apiResponse.kind = "rejected" =>
                         apiResult.error = apiResponse.error )
    /\ [][ /\ batchResult.state = "rejected" => batchResult' = batchResult
           /\ apiResult.state = "rejected" => apiResult' = apiResult ]_vars

\* C19, witness: a call of convertLrcContent has ended after fetch rejected
LrcConversionFailedInTransport ==
    /\ apiPc = "done"
    /\ apiCall.function = "convertLrcContent"
    /\ apiResponse.kind = "rejected"
    /\ console # <<>>

(***************************************************************************)
(* The middleware: crawler blocking and the X-Robots-Tag header.           *)
(***************************************************************************)
UpperCase ==
    <<"A", "B", "C", "D", "E", "F", "G", "H", "I", "J", "K", "L", "M", "N",
      "O", "P", "Q", "R", "S", "T", "U", "V", "W", "X", "Y", "Z">>

LowerCase ==
    <<"a", "b", "c", "d", "e", "f", "g", "h", "i", "j", "k", "l", "m", "n",
      "o", "p", "q", "r", "s", "t", "u", "v", "w", "x", "y", "z">>

\* the character without its case, as the flag i of a pattern compares it
foldCase(c) ==
    IF \E k \in DOMAIN UpperCase : UpperCase[k] = c
    THEN LowerCase[CHOOSE k \in DOMAIN UpperCase : UpperCase[k] = c]
    ELSE c

\* \w: a letter, a digit or the underscore
isWordChar(c) ==
    \/ \E k \in DOMAIN LowerCase : LowerCase[k] = foldCase(c)
    \/ IsDigit(c)
    \/ c = "_"

\* the patterns, in the order of the source: each is a literal text compared
\* without case; /bot\b/ asks for a word boundary after the text;
\* /java\s*\d*/ is the literal java, since \s*\d* also matches nothing
CRAWLER_UA_PATTERNS ==
    <<
      [literal |->
          <<"g", "o", "o", "g", "l", "e", "b", "o", "t">>,
       boundary |-> FALSE],
      [literal |->
          <<"b", "i", "n", "g", "b", "o", "t">>,
       boundary |-> FALSE],
      [literal |->
          <<"s", "l", "u", "r", "p">>,
       boundary |-> FALSE],
      [literal |->
          <<"d", "u", "c", "k", "d", "u", "c", "k", "b", "o", "t">>,
       boundary |-> FALSE],
      [literal |->
          <<"b", "a", "i", "d", "u", "s", "p", "i", "d", "e", "r">>,
       boundary |-> FALSE],
      [literal |->
          <<"y", "a", "n", "d", "e", "x", "b", "o", "t">>,
       boundary |-> FALSE],
      [literal |->
          <<"f", "a", "c", "e", "b", "o", "o", "k", "e", "x", "t", "e", "r",
            "n", "a", "l", "h", "i", "t">>,
       boundary |-> FALSE],
      [literal |->
          <<"t", "w", "i", "t", "t", "e", "r", "b", "o", "t">>,
       boundary |-> FALSE],
      [literal |->
          <<"r", "o", "g", "e", "r", "b", "o", "t">>,
       boundary |-> FALSE],
      [literal |->
          <<"l", "i", "n", "k", "e", "d", "i", "n", "b", "o", "t">>,
       boundary |-> FALSE],
      [literal |->
          <<"e", "m", "b", "e", "d", "l", "y">>,
       boundary |-> FALSE],
      [literal |->
          <<"q", "u", "o", "r", "a", " ", "l", "i", "n", "k", " ", "p", "r",
            "e", "v", "i", "e", "w">>,
       boundary |-> FALSE],
      [literal |->
          <<"s", "h", "o", "w", "y", "o", "u", "b", "o", "t">>,
       boundary |-> FALSE],
      [literal |->
          <<"o", "u", "t", "b", "r", "a", "i", "n">>,
       boundary |-> FALSE],
      [literal |->
          <<"p", "i", "n", "t", "e", "r", "e", "s", "t">>,
       boundary |-> FALSE],
      [literal |->
          <<"s", "l", "a", "c", "k", "b", "o", "t">>,
       boundary |-> FALSE],
      [literal |->
          <<"v", "k", "s", "h", "a", "r", "e">>,
       boundary |-> FALSE],
      [literal |->
          <<"w", "3", "c", "_", "v", "a", "l", "i", "d", "a", "t", "o", "r">>,
       boundary |-> FALSE],
      [literal |->
          <<"c", "r", "a", "w", "l", "e", "r">>,
       boundary |-> FALSE],
      [literal |->
          <<"s", "p", "i", "d", "e", "r">>,
       boundary |-> FALSE],
      [literal |->
          <<"b", "o", "t">>,
       boundary |-> TRUE],
      [literal |->
          <<"s", "c", "r", "a", "p", "e", "r">>,
       boundary |-> FALSE],
      [literal |->
          <<"c", "u", "r", "l">>,
       boundary |-> FALSE],
      [literal |->
          <<"w", "g", "e", "t">>,
       boundary |-> FALSE],
      [literal |->
          <<"p", "y", "t", "h", "o", "n", "-", "r", "e", "q", "u", "e", "s",
            "t", "s">>,
       boundary |-> FALSE],
      [literal |->
          <<"g", "o", "-", "h", "t", "t", "p", "-", "c", "l", "i", "e", "n",
            "t">>,
       boundary |-> FALSE],
      [literal |->
          <<"j", "a", "v", "a">>,
       boundary |-> FALSE],
      [literal |->
          <<"p", "e", "t", "a", "l", "b", "o", "t">>,
       boundary |-> FALSE],
      [literal |->
          <<"a", "h", "r", "e", "f", "s", "b", "o", "t">>,
       boundary |-> FALSE],
      [literal |->
          <<"s", "e", "m", "r", "u", "s", "h", "b", "o", "t">>,
       boundary |-> FALSE],
      [literal |->
          <<"d", "o", "t", "b", "o", "t">>,
       boundary |-> FALSE],
      [literal |->
          <<"m", "j", "1", "2", "b", "o", "t">>,
       boundary |-> FALSE]
    >>

\* a test that compares the characters with their case
testWithCase(re, ua) ==
    \E i \in 1..Len(ua) :
        /\ i + Len(re.literal) - 1 <= Len(ua)
        /\ \A k \in 1..Len(re.literal) : ua[i + k - 1] = re.literal[k]
        /\ re.boundary =>
               \/ i + Len(re.literal) > Len(ua)
               \/ ~isWordChar(ua[i + Len(re.literal)])

\* re.test(ua): the pattern matches somewhere in ua
test(re, ua) ==
    \E i \in 1..Len(ua) :
        /\ i + Len(re.literal) - 1 <= Len(ua)
        /\ \A k \in 1..Len(re.literal) : foldCase(ua[i + k - 1]) = re.literal[k]
        /\ re.boundary =>
               \/ i + Len(re.literal) > Len(ua)
               \/ ~isWordChar(ua[i + Len(re.literal)])

isCrawlerUserAgent(ua) ==
    IF ua = <<>> THEN FALSE
    ELSE \E k \in DOMAIN CRAWLER_UA_PATTERNS : test(CRAWLER_UA_PATTERNS[k], ua)

\* request.headers.get("user-agent") ?? ""
userAgentOf(req) == IF req.userAgent = null THEN <<>> ELSE req.userAgent.text

RobotsTag == <<"X-Robots-Tag", "noindex, nofollow, noarchive, nosnippet">>

\* NextResponse.next() after response.headers.set("X-Robots-Tag", ...)
taggedNext ==
    [status  |-> 200,
     body    |-> "next",
     headers |-> { <<"x-middleware-next", "1">>, RobotsTag }]

\* new NextResponse("Forbidden", { status: 403 })
forbidden ==
    [status  |-> 403,
     body    |-> "Forbidden",
     headers |-> { <<"content-type", "text/plain;charset=UTF-8">> }]

\* middleware(request): the response it returns
middleware(req) ==
    IF isCrawlerUserAgent(userAgentOf(req)) THEN forbidden ELSE taggedNext

\* the user agents of the requests: a product token between a prefix and a
\* suffix
UserAgentPrefixes ==
    {
      <<>>,
      <<"M", "o", "z", "i", "l", "l", "a", "/", "5", ".", "0", " ">>
    }

\* product tokens: crawlers and clients of the list, in several cases, and
\* browsers
UserAgentTokens ==
    {
      <<>>,
      <<"G", "o", "o", "g", "l", "e", "b", "o", "t">>,
      <<"b", "i", "n", "g", "b", "o", "t">>,
      <<"B", "O", "T">>,
      <<"b", "o", "t", "s">>,
      <<"r", "o", "b", "o", "t">>,
      <<"c", "U", "R", "L">>,
      <<"W", "g", "e", "t">>,
      <<"J", "a", "v", "a">>,
      <<"j", "a", "v", "a", " ", "1", "1">>,
      <<"J", "a", "v", "a", "S", "c", "r", "i", "p", "t">>,
      <<"C", "h", "r", "o", "m", "e">>,
      <<"S", "a", "f", "a", "r", "i">>,
      <<"F", "i", "r", "e", "f", "o", "x">>,
      <<"Q", "u", "o", "r", "a", " ", "L", "i", "n", "k", " ", "P", "r",
        "e", "v", "i", "e", "w">>,
      <<"q", "u", "o", "r", "a", "-", "l", "i", "n", "k", "-", "p", "r",
        "e", "v", "i", "e", "w">>,
      <<"p", "y", "t", "h", "o", "n", "-", "r", "e", "q", "u", "e", "s",
        "t", "s">>,
      <<"G", "o", "-", "h", "t", "t", "p", "-", "c", "l", "i", "e", "n", "t">>,
      <<"S", "p", "i", "d", "e", "r">>,
      <<"o", "k", "h", "t", "t", "p">>
    }

\* what follows the token: nothing, a version, a word character, a word
UserAgentSuffixes ==
    {
      <<>>,
      <<"/", "1", ".", "0">>,
      <<"_", "x">>,
      <<" ", "x">>
    }

UserAgents ==
    { p \o t \o s :
        p \in UserAgentPrefixes, t \in UserAgentTokens, s \in UserAgentSuffixes }

\* the requests: without a user-agent header, or with one of the user agents
Requests ==
    { [userAgent |-> null] } \cup { [userAgent |-> string(ua)] : ua \in UserAgents }

MiddlewareInit ==
    /\ request \in Requests
    /\ returnedResponse = null
    /\ content = <<>>
    /\ ParserIdle
    /\ BatchIdle
    /\ PipelineIdle
    /\ DictionaryIdle
    /\ ApiIdle
    /\ ConverterIdle

\* the middleware runs on the request
Middleware ==
    /\ returnedResponse = null
    /\ returnedResponse' = middleware(request)
    /\ UNCHANGED <<request, parseVars, batchVars, pipeVars, dictVars, apiVars, converterVars>>

MiddlewareNext == Middleware

MiddlewareSpec == MiddlewareInit /\ [][MiddlewareNext]_vars

(***************************************************************************)
(* Properties of the middleware.                                           *)
(***************************************************************************)
\* C20: every response the middleware returns carries the header
\* X-Robots-Tag: noindex, nofollow, noarchive, nosnippet, the passed-through
\* response and the 403 response alike
EveryResponseCarriesRobotsTag ==
    returnedResponse # null => RobotsTag \in returnedResponse.headers

(***************************************************************************)
(* Further properties of the parsers.                                      *)
(***************************************************************************)
\* the records of parseLrcContent in the order of their lines
recordsInLineOrder == lyricsOfLines(linesOf(content))

\* C21: parseLrcContent returns its records in non-decreasing order of time,
\* the time being minutes*60 + seconds + fraction/100 of the tag of the
\* record's line; records of equal time keep the order of their lines; the
\* time is in no text field: a record holds its time and, as original, a
\* piece of the text of its line
SortedByTimeAndStable ==
    "parseLrcContent" \in returned =>
        LET n == Len(lyrics)
        IN  /\ \A k \in 1..(n - 1) : lyrics[k].time <= lyrics[k + 1].time
            /\ n = Len(recordsInLineOrder)
            /\ \E p \in Permutations(1..n) :
                   /\ \A k \in 1..n : lyrics[p[k]] = recordsInLineOrder[k]
                   /\ \A i, j \in 1..n :
                          ( /\ i < j
                            /\ recordsInLineOrder[i].time
                                   = recordsInLineOrder[j].time )
                              => p[i] < p[j]
            /\ \A k \in 1..n :
                   /\ DOMAIN lyrics[k] = {"time", "original"}
                   /\ \E l \in 1..Len(linesOf(content)) :
                          /\ hasTag(linesOf(content)[l])
                          /\ lyrics[k].time = tagTime(tagText(linesOf(content)[l]))
                          /\ includes(linesOf(content)[l], lyrics[k].original)

\* C21, witness: three records have been returned in another order than that
\* of their lines, the last two with the same time and different texts
EqualTimesSorted ==
    /\ "parseLrcContent" \in returned
    /\ Len(lyrics) = 3
    /\ lyrics # recordsInLineOrder
    /\ lyrics[2].time = lyrics[3].time
    /\ lyrics[2].original # lyrics[3].original

\* C22: parseConvertedLrcContent and parseLrcContent agree: on the same
\* content they return lists of the same length whose records have, place by
\* place, the same time and the same original, and converted is original in
\* every record of parseConvertedLrcContent
ParsersAgree ==
    {"parseLrcContent", "parseConvertedLrcContent"} \subseteq returned =>
        /\ Len(converted) = Len(lyrics)
        /\ \A i \in 1..Len(converted) :
               /\ converted[i].time = lyrics[i].time
               /\ converted[i].original = lyrics[i].original
               /\ converted[i].converted = converted[i].original

\* C22, witness: both parsers have returned two records or more, one of
\* them with a text of several words
SeveralWordsParsedTwice ==
    /\ {"parseLrcContent", "parseConvertedLrcContent"} \subseteq returned
    /\ Len(converted) >= 2
    /\ \E i \in 1..Len(converted) : includes(converted[i].original, <<" ">>)

\* the original is not empty and has no white space at its ends
isTrimmedText(original) ==
    /\ original # <<>>
    /\ original[1] \notin WhiteSpace
    /\ original[Len(original)] \notin WhiteSpace

\* the number of lines of the content that hold a timestamp tag
numberOfTaggedLines(c) ==
    Cardinality({ l \in 1..Len(linesOf(c)) : containsTagShape(linesOf(c)[l]) })

\* C24: every record of parseLrcContent and of parseConvertedLrcContent has
\* an original that is not empty and has no white space at its ends, and
\* there are no more records than lines of the content with a timestamp tag
RecordsTrimmedAndBounded ==
    /\ "parseLrcContent" \in returned =>
           /\ \A k \in 1..Len(lyrics) : isTrimmedText(lyrics[k].original)
           /\ Len(lyrics) <= numberOfTaggedLines(content)
    /\ "parseConvertedLrcContent" \in returned =>
           /\ \A k \in 1..Len(converted) : isTrimmedText(converted[k].original)
           /\ Len(converted) <= numberOfTaggedLines(content)

\* C24, witness: both parsers have returned the record of a line whose text
\* stands between white space, after a line with a tag and no text
PaddedTextParsed ==
    /\ returned = {"parseLrcContent", "parseConvertedLrcContent"}
    /\ Len(lyrics) = 1 /\ Len(converted) = 1
    /\ numberOfTaggedLines(content) = 2
    /\ \E l \in 1..Len(linesOf(content)) :
           LET t == trim(linesOf(content)[l])
           IN  hasLeadingTag(linesOf(content)[l]) /\ Len(t) > 10
                   /\ t[11] \in WhiteSpace

\* the user agent with every letter in lower case
lowered(ua) == [i \in 1..Len(ua) |-> foldCase(ua[i])]

\* the text of the pattern stands in the user agent, whatever the case of
\* its letters, followed by no word character when the pattern asks so
patternFound(re, ua) ==
    \E i \in 1..Len(ua) :
        /\ i + Len(re.literal) - 1 <= Len(ua)
        /\ SubSeq(lowered(ua), i, i + Len(re.literal) - 1) = re.literal
        /\ re.boundary =>
               \A j \in {i + Len(re.literal)} \cap (1..Len(ua)) :
                   ~isWordChar(ua[j])

\* the request has a User-Agent header that matches one of the patterns
matchesCrawlerPattern ==
    /\ request.userAgent # null
    /\ \E k \in DOMAIN CRAWLER_UA_PATTERNS :
           patternFound(CRAWLER_UA_PATTERNS[k], request.userAgent.text)

\* C23: the middleware answers 403 Forbidden exactly when the User-Agent of
\* the request matches one of the crawler patterns, whatever the case; a
\* request without the header, with an empty one or with one that matches
\* no pattern is passed on to the next handler
ForbiddenExactlyForCrawlers ==
    returnedResponse # null =>
        IF matchesCrawlerPattern
        THEN returnedResponse.status = 403 /\ returnedResponse.body = "Forbidden"
        ELSE returnedResponse.status = 200 /\ returnedResponse.body = "next"

\* C23, witness: a request whose user agent names a crawler in mixed case
\* after a browser token has been answered 403
MixedCaseCrawlerForbidden ==
    /\ returnedResponse # null
    /\ returnedResponse.status = 403
    /\ request.userAgent # null
    /\ includes(request.userAgent.text, <<"G", "o", "o", "g", "l", "e", "b", "o", "t">>)
    /\ includes(request.userAgent.text, <<"M", "o", "z", "i", "l", "l", "a">>)

(***************************************************************************)
(* The conversion page: the text area with its paste and sample buttons,   *)
(* handleConvert, and the dictionary dialog under the result.  The page    *)
(* calls convertText and addDictionaryEntry; what is awaited settles in a  *)
(* step of its own, and the handler goes on in a later step.  The dialog   *)
(* is modal: while it is open the controls behind it take no click.  The   *)
(* flags copied and pasteSuccess, which only colour a button for a moment, *)
(* and the convertNumbers switch are left out.                             *)
(***************************************************************************)
MaxInsertions == 1

MaxConversions == 2

\* the messages the page sets by itself
EnterLyricsMessage == <<"Enter the lyrics">>

ClipboardMessage == <<"The clipboard could not be read">>

\* what the engine throws at res.kana when res is null
nullKanaError ==
    [name |-> "TypeError",
     message |-> <<"Cannot read properties of null (reading 'kana')">>]

\* the samples of the sample button
SAMPLE_TEXTS ==
    << [label |-> "lyrics",  text |-> <<"S", " ", "R">>],
       [label |-> "app",     text |-> <<"A", "N", "!">>],
       [label |-> "daily",   text |-> <<"H", "?">>],
       [label |-> "app",     text |-> <<"R", "!", " ", "A">>],
       [label |-> "short",   text |-> <<"S", "H", ".">>] >>

\* what is typed into the text area, what the clipboard holds and what is
\* selected in the result
InputValues == { <<" ">>, <<"A", "N">> }

ClipboardTexts == { <<"S">> }

Selections == { <<>>, <<" ", "a", " ">> }

\* the answers of /api/kanafy-ko to a text
ConversionStatusCodes == {200, 500}

ConversionBodies(text) ==
    { [json |-> "null"], [json |-> "object", kana |-> Kanafy(text)] }

ConversionFetchErrors == { e \in FetchErrors : includes(e.message, <<"F">>) }

\* what is typed into the dialog and what the dictionary endpoint answers
\* while the whole page is explored
DialogHangulInputs == { <<" ", "A", "N", " ">> }

DialogKanaInputs == { <<"a", "n", " ">> }

DialogStatusCodes == {200, 500}

DialogBodies == { b \in DictionaryBodies : b.json = "object" /\ b.detail = undefined }

\* the variables of the page's call of convertText, of its clipboard reads,
\* of the dialog, of the call of addDictionaryEntry, and of everything that
\* is not the page
convertCallVars ==
    <<convertCall, convertPc, convertRequests, convertResponse, convertResult>>

pasteVars == <<insertions, clipboardReads>>

dialogVars == <<dictHangul, dictKana, dictSubmitting, dictSuccess>>

dictCallVars ==
    <<API_BASE_URL, dictCall, dictPc, dictRequests, dictResponse, dictResult>>

elsewhereVars == <<parseVars, batchVars, pipeVars, apiVars, middlewareVars>>

ConverterInit ==
    /\ DictionaryIdle
    /\ ConverterIdle
    /\ content = <<>>
    /\ ParserIdle
    /\ BatchIdle
    /\ PipelineIdle
    /\ ApiIdle
    /\ MiddlewareIdle

\* onChange of the text area (disabled while isConverting)
SetInput ==
    /\ ~isConverting
    /\ ~dictDialogOpen
    /\ \E v \in InputValues : input' = v
    /\ UNCHANGED <<result, isConverting, sampleIndex,
                   dictDialogOpen, lastSelectionRef, pasteVars,
                   convertCallVars, error, dialogVars, dictCallVars,
                   elsewhereVars>>

\* handleInsertSample (its button is disabled while isConverting)
HandleInsertSample ==
    /\ ~isConverting
    /\ ~dictDialogOpen
    /\ insertions < MaxInsertions
    /\ insertions' = insertions + 1
    /\ input' = SAMPLE_TEXTS[sampleIndex + 1].text
    /\ sampleIndex' = (sampleIndex + 1) % Len(SAMPLE_TEXTS)
    /\ UNCHANGED <<result, isConverting, dictDialogOpen,
                   lastSelectionRef, clipboardReads, convertCallVars, error,
                   dialogVars, dictCallVars, elsewhereVars>>

\* handlePaste up to its await (its button is disabled while isConverting)
HandlePaste ==
    /\ ~isConverting
    /\ ~dictDialogOpen
    /\ insertions < MaxInsertions
    /\ insertions' = insertions + 1
    /\ clipboardReads' = clipboardReads + 1
    /\ UNCHANGED <<input, result, isConverting, sampleIndex,
                   dictDialogOpen, lastSelectionRef, convertCallVars, error,
                   dialogVars, dictCallVars, elsewhereVars>>

\* setInput((prev) => prev + (prev ? "\n" : "") + text)
pasted(prev, text) ==
    prev \o (IF prev # <<>> THEN <<"\n">> ELSE <<>>) \o text

\* handlePaste from its await on, the clipboard read: the rest of the try
\* block (the tick it shows on the button for 1.5 s is left out)
HandlePasteResume ==
    /\ clipboardReads > 0
    /\ \E text \in ClipboardTexts : input' = pasted(input, text)
    /\ clipboardReads' = clipboardReads - 1
    /\ UNCHANGED <<result, isConverting, sampleIndex, dictDialogOpen,
                   lastSelectionRef, insertions, convertCallVars, error,
                   dialogVars, dictCallVars, elsewhereVars>>

\* handlePaste from its await on, the clipboard refused: the catch block
HandlePasteCatch ==
    /\ clipboardReads > 0
    /\ error' = string(ClipboardMessage)
    /\ clipboardReads' = clipboardReads - 1
    /\ UNCHANGED <<input, result, isConverting, sampleIndex,
                   dictDialogOpen, lastSelectionRef, insertions, convertCallVars,
                   dialogVars, dictCallVars, elsewhereVars>>

\* the text of handleConvert without its trim
inputTextUntrimmed(value) == value

\* const text = input.trim()
inputText(value) == trim(value)

\* handleConvert without its setResult("")
resultKept(prev) == prev

\* setResult("") of handleConvert
resultCleared(prev) == <<>>

\* handleConvert up to its await: the handler is run in whatever state the
\* text is (the button that runs it is disabled while the text is blank; the
\* handler tests the text again by itself)
HandleConvert ==
    /\ ~isConverting
    /\ ~dictDialogOpen
    /\ LET text == inputText(input)
       IN  IF text = <<>>
           THEN /\ error' = string(EnterLyricsMessage)
                /\ UNCHANGED <<result, isConverting, convertCallVars>>
           ELSE /\ convertRequests < MaxConversions
                /\ error' = null
                /\ result' = resultCleared(result)
                /\ isConverting' = TRUE
                /\ convertCall' = [caller |-> "handleConvert", text |-> text]
                /\ convertRequests' = convertRequests + 1
                /\ convertPc' = "fetch"
                /\ convertResponse' = [kind |-> "none"]
                /\ convertResult' = [state |-> "pending"]
    /\ UNCHANGED <<input, sampleIndex, dictDialogOpen,
                   lastSelectionRef, pasteVars, dialogVars, dictCallVars,
                   elsewhereVars>>

\* the service answers the conversion request
ConversionResponds ==
    /\ convertPc = "fetch"
    /\ convertResponse.kind = "none"
    /\ \E status \in ConversionStatusCodes,
          body \in ConversionBodies(convertCall.text) :
           convertResponse' =
               [kind |-> "response", status |-> status, body |-> body]
    /\ UNCHANGED <<input, result, isConverting, sampleIndex,
                   dictDialogOpen, lastSelectionRef, pasteVars, convertCall,
                   convertPc, convertRequests, convertResult, error,
                   dialogVars, dictCallVars, elsewhereVars>>

\* the endpoint cannot be reached: fetch rejects
ConversionFetchRejects ==
    /\ convertPc = "fetch"
    /\ convertResponse.kind = "none"
    /\ \E e \in ConversionFetchErrors :
           convertResponse' = [kind |-> "rejected", error |-> e]
    /\ UNCHANGED <<input, result, isConverting, sampleIndex,
                   dictDialogOpen, lastSelectionRef, pasteVars, convertCall,
                   convertPc, convertRequests, convertResult, error,
                   dialogVars, dictCallVars, elsewhereVars>>

\* convertText, called by the page, from its await fetch(...) to its end
ConversionSettles ==
    /\ convertPc = "fetch"
    /\ convertResponse.kind # "none"
    /\ convertResult' = convertTextSettles(convertResponse)
    /\ convertPc' = "settled"
    /\ UNCHANGED <<input, result, isConverting, sampleIndex,
                   dictDialogOpen, lastSelectionRef, pasteVars, convertCall,
                   convertRequests, convertResponse, error, dialogVars,
                   dictCallVars, elsewhereVars>>

\* the try block of handleConvert after its await: how it ends, with the
\* value of setResult or with what the catch block catches
tryConvert(settled) ==
    IF settled.state = "rejected" THEN settled
    ELSE IF settled.value.json = "null"
    THEN [state |-> "rejected", error |-> nullKanaError]
    ELSE [state |-> "resolved", value |-> settled.value.kana]

\* a handler that sets isConverting back in its try block only
afterTryOnly(outcome) == outcome.state # "resolved"

\* isConverting after the finally block of handleConvert
afterFinally(outcome) == FALSE

\* handleConvert from its await to its end: the rest of the try block, or
\* the catch block, and the finally block
HandleConvertResume ==
    /\ convertPc = "settled"
    /\ LET outcome == tryConvert(convertResult)
       IN  /\ IF outcome.state = "resolved"
              THEN /\ result' = outcome.value
                   /\ UNCHANGED error
              ELSE /\ error' = string(outcome.error.message)
                   /\ UNCHANGED result
           /\ isConverting' = afterFinally(outcome)
    /\ convertCall' = [caller |-> "none"]
    /\ convertPc' = "idle"
    /\ convertResponse' = [kind |-> "none"]
    /\ convertResult' = [state |-> "none"]
    /\ UNCHANGED <<input, sampleIndex, dictDialogOpen,
                   lastSelectionRef, pasteVars, convertRequests, dialogVars,
                   dictCallVars, elsewhereVars>>

\* saveSelection, run by onMouseUp and onTouchEnd of the result
SaveSelection ==
    /\ result # <<>>
    /\ ~dictDialogOpen
    /\ \E selection \in Selections : lastSelectionRef' = trim(selection)
    /\ UNCHANGED <<input, result, isConverting, sampleIndex,
                   dictDialogOpen, pasteVars, convertCallVars, error,
                   dialogVars, dictCallVars, elsewhereVars>>

\* openDictDialog, run by the button over the result (rendered while result
\* is not empty)
OpenDictDialog ==
    /\ result # <<>>
    /\ ~dictDialogOpen
    /\ dictHangul' = lastSelectionRef
    /\ dictKana' = <<>>
    /\ dictSuccess' = null
    /\ dictDialogOpen' = TRUE
    /\ UNCHANGED <<input, result, isConverting, sampleIndex,
                   lastSelectionRef, pasteVars, convertCallVars, error,
                   dictSubmitting, dictCallVars, elsewhereVars>>

\* onOpenChange of the dialog with false: the Escape key, a click outside
\* the dialog, or its close button
CloseDictDialog ==
    /\ dictDialogOpen
    /\ dictDialogOpen' = FALSE
    /\ UNCHANGED <<input, result, isConverting, sampleIndex,
                   lastSelectionRef, pasteVars, convertCallVars, error,
                   dialogVars, dictCallVars, elsewhereVars>>

ConverterNext ==
    \/ SetInput
    \/ HandleInsertSample
    \/ HandlePaste
    \/ HandlePasteResume
    \/ HandlePasteCatch
    \/ HandleConvert
    \/ ConversionResponds
    \/ ConversionFetchRejects
    \/ ConversionSettles
    \/ HandleConvertResume
    \/ SaveSelection
    \/ OpenDictDialog
    \/ CloseDictDialog
    \/ dictDialogOpen /\ SetDictHangul /\ dictHangul' \in DialogHangulInputs
    \/ dictDialogOpen /\ SetDictKana /\ dictKana' \in DialogKanaInputs
    \/ dictDialogOpen /\ HandleAddDictionary
    \/ /\ DictionaryResponds
       /\ dictResponse'.status \in DialogStatusCodes
       /\ dictResponse'.body \in DialogBodies
    \/ DictionaryFetchRejects /\ dictResponse'.error \in ConversionFetchErrors
    \/ AddDictionaryEntryResume
    \/ HandleAddDictionaryResume

ConverterSpec == ConverterInit /\ [][ConverterNext]_vars

(***************************************************************************)
(* Properties of the conversion page.                                      *)
(***************************************************************************)
\* C25 as stated: while a conversion is in flight no step changes the input
\* text, the completion of a paste started before the conversion included,
\* and a conversion that succeeds ends with the result of the text displayed
InputFrozenWhileConverting ==
    [][ /\ isConverting => input' = input
        /\ ( HandleConvertResume /\ tryConvert(convertResult).state = "resolved" )
               => result' = Kanafy(trim(input')) ]_vars

\* the page with the scheduling of its continuations: once what a handler
\* awaits has settled, the engine runs the rest of the handler
ConverterFairSpec ==
    /\ ConverterSpec
    /\ WF_vars(HandleConvertResume)
    /\ WF_vars(HandleAddDictionaryResume)

\* C26: once the convertText call of handleConvert has settled, resolved or
\* rejected, isConverting becomes false again, and once the
\* addDictionaryEntry call of handleAddDictionary has settled dictSubmitting
\* becomes false again; no handler ends with its flag still true
BusyFlagsReleased ==
    /\ (isConverting /\ convertPc = "settled") ~> ~isConverting
    /\ (dictSubmitting /\ dictPc = "settled") ~> ~dictSubmitting
    /\ [](convertPc = "idle" => ~isConverting)
    /\ [](dictPc \in {"idle", "done"} => ~dictSubmitting)

\* C26, witness: a dictionary submission and, after it, a conversion have
\* both failed, and both flags are false again
BothFlagsReleasedAfterFailures ==
    /\ dictPc = "done"
    /\ dictResult.state = "rejected"
    /\ ~dictSubmitting
    /\ convertRequests = 2
    /\ convertPc = "idle"
    /\ result = <<>>
    /\ error # null
    /\ ~isConverting

\* the try block of handleConvert runs to its end: convertText resolved with
\* a response that has a kana field to read
conversionSucceeds == tryConvert(convertResult).state = "resolved"

\* C27: handleConvert, when it starts a request, clears error and result,
\* and result stays empty while the request is in flight; when the request
\* fails, the handler ends with result empty and error not null; when it
\* succeeds, the handler ends with result the kana field of the response
\* and leaves error as it is
ConversionOutcomeShown ==
    [](isConverting => result = <<>>)
        /\ [][ /\ ( HandleConvert /\ trim(input) # <<>> ) =>
                       ( error' = null /\ result' = <<>> )
               /\ ( HandleConvertResume /\ ~conversionSucceeds ) =>
                       ( result' = <<>> /\ error' # null )
               /\ ( HandleConvertResume /\ conversionSucceeds ) =>
                       ( result' = convertResult.value.kana /\ error' = error )
           ]_vars

\* C27, witness: a first conversion succeeded (a part of its result was
\* selected), a second one was answered 500: the page shows the error and
\* no result
FailedConversionAfterShownResult ==
    /\ lastSelectionRef # <<>>
    /\ convertRequests = 2
    /\ convertPc = "idle"
    /\ result = <<>>
    /\ error = string(httpErrorMessage(500))

\* C28: handleConvert run on a text that is empty after trimming sets the
\* enter-the-lyrics message and changes nothing else: no request, and
\* result, isConverting and input as they were; handleAddDictionary run
\* with a hangul or a kana that is empty after trimming sets the
\* both-fields message and changes nothing else: no request, and
\* dictSubmitting, dictSuccess, dictHangul and dictKana as they were
BlankSubmissionOnlySetsError ==
    [][ /\ ( HandleConvert /\ trim(input) = <<>> ) =>
               /\ error' = string(EnterLyricsMessage)
               /\ UNCHANGED <<converterVars, dialogVars, dictCallVars>>
        /\ ( /\ HandleAddDictionary
             /\ trim(dictHangul) = <<>> \/ trim(dictKana) = <<>> ) =>
               /\ error' = string(BothFieldsMessage)
               /\ UNCHANGED <<converterVars, dialogVars, dictCallVars>> ]_vars

\* C28, witness: handleConvert was run on a blank text while the result of
\* an earlier conversion was shown: the message is set, the result is still
\* shown and no second request was issued
BlankInputKeepsShownResult ==
    /\ trim(input) = <<>>
    /\ error = string(EnterLyricsMessage)
    /\ result # <<>>
    /\ convertRequests = 1
    /\ ~isConverting

\* the pair the last request to the dictionary endpoint carried
submittedPair == dictRequests[Len(dictRequests)]

====
